---- MODULE Spec2Model ----
(***************************************************************************)
(* Model of src/transcriber/model.py: transcribe_file, transcribe_segment  *)
(* and _recursive_split_and_transcribe, with the helpers they call, and of *)
(* the splitter functions of src/transcriber/audio.py (split_mp3 and       *)
(* split_mp3_by_size) that transcribe_file is given as splitter_fn.        *)
(*                                                                         *)
(* Representation.                                                         *)
(*  - A Python str is a sequence of tokens; a token is a TLA+ string that  *)
(*    stands for one or more characters ("a", "\n", "U+200B", "boom").     *)
(*  - A time in seconds (a Python float) is an integer number of ticks,    *)
(*    TicksPerSec ticks to the second; TicksPerSec is a power of two large *)
(*    enough that every halving the splitter performs is exact.            *)
(*  - A file path is a record: SegPath(k) is work_dir/seg00k.mp3, and     *)
(*    PartL(p), PartR(p) are p + "_partL.mp3" and p + "_partR.mp3".        *)
(*  - A result dict is a record with the same keys as the dict.  The value *)
(*    of its "index" key is kept in ticks as well (index * TicksPerSec),   *)
(*    because the splitter stores the float start_s there.                 *)
(***************************************************************************)
EXTENDS Integers, Sequences, FiniteSets, TLC

(* ------------------------------ bounds -------------------------------- *)

\* largest number of top-level segment files in work_dir
MaxSeg == 3

\* largest max_concurrency passed to transcribe_file
MaxConc == 2

\* largest max_segment_retries passed to transcribe_file
MaxRetries == 2

\* largest max_split_depth passed to transcribe_file
MaxDepthBound == 2

\* a run is explored when the largest number of remote calls its top-level
\* tasks can make, times the largest number of leaves one split can produce,
\* (segments) * (max_segment_retries + 1) * 2^max_split_depth, is at most
\* MaxWork
MaxWork == 4

\* max_payload_size passed to transcribe_file (bytes)
PayloadSizeCap == 2

\* seg_seconds passed to transcribe_file (seconds)
SegSeconds == 2

\* a duration (seconds) ffprobe reports for a top-level segment file
ProbedSeconds == 1

TicksPerSec == 2 ^ MaxDepthBound

(* --------------------------- Python helpers --------------------------- *)

Range(s) == {s[i] : i \in 1..Len(s)}

RECURSIVE Join(_, _)
\* sep.join(parts)
Join(sep, parts) ==
    IF parts = <<>> THEN <<>>
    ELSE IF Len(parts) = 1 THEN parts[1]
    ELSE parts[1] \o sep \o Join(sep, Tail(parts))

\* characters str.strip() removes that occur in the modelled alphabet
Whitespace == {" ", "\n", "\t"}

RECURSIVE LStrip(_)
LStrip(s) ==
    IF s # <<>> /\ Head(s) \in Whitespace THEN LStrip(Tail(s)) ELSE s

RECURSIVE RStrip(_)
RStrip(s) ==
    IF s # <<>> /\ s[Len(s)] \in Whitespace
    THEN RStrip(SubSeq(s, 1, Len(s) - 1)) ELSE s

\* str.strip()
Strip(s) == RStrip(LStrip(s))

\* utils.py: chars_to_remove
CharsToRemove ==
    {"U+061C", "U+200B", "U+200C", "U+200D", "U+200E", "U+200F",
     "U+202A", "U+202B", "U+202C", "U+202D", "U+202E",
     "U+2066", "U+2067", "U+2068", "U+2069", "U+FEFF"}

\* the isolate controls U+2066..U+2069 are kept
CleanKeepsIsolates(text) ==
    LET keep(c) == c \notin CharsToRemove \ {"U+2066", "U+2067", "U+2068", "U+2069"}
    IN  SelectSeq(text, keep)

\* utils.py: clean_some_unicode_from_text
clean_some_unicode_from_text(text) ==
    LET keep(c) == c \notin CharsToRemove IN SelectSeq(text, keep)

DigitTok == <<"0", "1", "2", "3", "4", "5", "6", "7", "8", "9">>

DigitSet == Range(DigitTok)

RECURSIVE Decimal(_)
\* str(n) for an integer n >= 0
Decimal(n) ==
    IF n < 10 THEN <<DigitTok[n + 1]>>
    ELSE Decimal(n \div 10) \o <<DigitTok[(n % 10) + 1]>>

\* f"{n:02d}"
Fmt02d(n) ==
    IF n < 0 THEN <<"-">> \o Decimal(0 - n)
    ELSE IF n < 10 THEN <<"0">> \o Decimal(n)
    ELSE Decimal(n)

\* int(round(seconds)) for seconds given in ticks: Python rounds half to even
RoundSeconds(t) ==
    LET q == t \div TicksPerSec
        r == t % TicksPerSec
    IN  IF 2 * r < TicksPerSec THEN q
        ELSE IF 2 * r > TicksPerSec THEN q + 1
        ELSE IF q % 2 = 0 THEN q ELSE q + 1

\* the minutes are not reduced modulo the hour
format_tsMinutesOfTotal(seconds) ==
    LET total == RoundSeconds(seconds)
        h == total \div 3600
        m == total \div 60
        s == total % 60
    IN  Fmt02d(h) \o <<":">> \o Fmt02d(m) \o <<":">> \o Fmt02d(s)

\* model.py: _format_ts
format_ts(seconds) ==
    LET total == RoundSeconds(seconds)
        h == total \div 3600
        m == (total % 3600) \div 60
        s == total % 60
    IN  Fmt02d(h) \o <<":">> \o Fmt02d(m) \o <<":">> \o Fmt02d(s)

\* int(x) for x given in ticks, again in ticks: truncation toward zero
IntOf(t) ==
    IF t >= 0 THEN (t \div TicksPerSec) * TicksPerSec
    ELSE 0 - (((0 - t) \div TicksPerSec) * TicksPerSec)

\* f"[Transcription failed - {_format_ts(start_s)} - {_format_ts(end_s)} Reason: {reason}]"
Placeholder(start_s, end_s, reason) ==
    <<"[Transcription failed - ">> \o format_ts(start_s) \o <<" - ">>
        \o format_ts(end_s) \o <<" Reason: ">> \o reason \o <<"]">>

ReasonEmpty == <<"empty transcription">>
ReasonUnknown == <<"unknown">>
ReasonTooLarge == <<"payload-too-large-after-splits">>
ReasonPersistent == <<"payload-error-persistent">>

(* ------------------------- the remote service -------------------------- *)

PayloadPrefix == "Payload length is "
PayloadInfix == ", exceeding max payload length of "

RECURSIVE DigitsEnd(_, _)
\* the position after the longest run of digits of msg starting at i
DigitsEnd(msg, i) ==
    IF i <= Len(msg) /\ msg[i] \in DigitSet THEN DigitsEnd(msg, i + 1) ELSE i

\* a pattern that matches no error text
PayloadNeverMatches(msg) == FALSE

\* model.py: PAYLOAD_ERR_RE.search(msg) is not None
PAYLOAD_ERR_RE_search(msg) ==
    \E i \in 1..Len(msg) :
        /\ msg[i] = PayloadPrefix
        /\ DigitsEnd(msg, i + 1) > i + 1
        /\ LET j == DigitsEnd(msg, i + 1)
           IN  /\ j + 1 <= Len(msg)
               /\ msg[j] = PayloadInfix
               /\ msg[j + 1] \in DigitSet

\* error texts (str(e)) the remote call raises
MsgBoom == <<"boom">>
MsgBlank == <<>>
MsgPayload == <<PayloadPrefix, "5", "0", PayloadInfix, "1", "0">>

ErrMsgs == {MsgBoom, MsgBlank, MsgPayload}

\* chunk sequences the remote call streams; each chunk is the chunk's .text
ChunkLists ==
    { <<>>,
      << <<"U+200B">>, <<" ", "U+FEFF">> >>,
      << <<" ", "a", "U+200E">>, <<"U+202A", "b">>, <<"U+2066">> >> }

\* one remote call: the chunks streamed, then either the end of the stream
\* or an exception with text msg
RemoteOutcomes ==
    {[chunks |-> c, raised |-> FALSE, msg |-> <<>>] : c \in ChunkLists}
    \cup {[chunks |-> c, raised |-> TRUE, msg |-> m] :
            c \in {<<>>, << <<"a">> >>}, m \in ErrMsgs}

(* ------------------------------ paths ---------------------------------- *)

\* work_dir/seg<k>.mp3 (k written with three digits)
SegPath(k) == [stem |-> "seg", num |-> k, parts |-> <<>>]

\* f"{path}_partL.mp3"
PartL(path) == [path EXCEPT !.parts = @ \o <<"L">>]

\* f"{path}_partR.mp3"
PartR(path) == [path EXCEPT !.parts = @ \o <<"R">>]

\* a file of work_dir that is not a segment (the source recording)
SourcePath == [stem |-> "full", num |-> 0, parts |-> <<>>]

\* re.match(r"seg\d{3}\.mp3", f): the pattern is anchored at the start of
\* the name only, so anything may follow ".mp3"
SegNameMatch(f) == f.stem = "seg" /\ f.num \in 0..999

RECURSIVE PartsLess(_, _)
\* string order of the suffixes: "" < "_partL.mp3..." < "_partR.mp3..."
PartsLess(a, b) ==
    IF b = <<>> THEN FALSE
    ELSE IF a = <<>> THEN TRUE
    ELSE IF Head(a) # Head(b) THEN Head(a) = "L"
    ELSE PartsLess(Tail(a), Tail(b))

\* string order of two matching file names
NameLess(f, g) ==
    f.num < g.num \/ (f.num = g.num /\ PartsLess(f.parts, g.parts))

RECURSIVE SortNames(_)
\* segments.sort() on a set of names
SortNames(S) ==
    IF S = {} THEN <<>>
    ELSE LET least == CHOOSE f \in S : \A g \in S \ {f} : NameLess(f, g)
         IN  <<least>> \o SortNames(S \ {least})

\* [f for f in os.listdir(work_dir) if re.match(...)] followed by segments.sort()
ListSegments(dir) == SortNames({f \in dir : SegNameMatch(f)})

(* ------------------------------ results -------------------------------- *)

\* the value of a variable that holds no result yet
NoResult == [pending |-> TRUE]

\* {"index": index, "text": text, "start_s": start_s, "end_s": end_s}
TextResult(index, text, start_s, end_s) ==
    [index |-> index, text |-> text, start_s |-> start_s, end_s |-> end_s]

\* a split signal that carries a text as well
SplitResultWithText(index, segment_path, start_s, end_s) ==
    [index |-> index, split_required |-> TRUE, segment_path |-> segment_path,
     text |-> <<>>, start_s |-> start_s, end_s |-> end_s]

\* {"index": index, "split_required": True, "segment_path": segment_path,
\*  "start_s": start_s, "end_s": end_s}
SplitResult(index, segment_path, start_s, end_s) ==
    [index |-> index, split_required |-> TRUE, segment_path |-> segment_path,
     start_s |-> start_s, end_s |-> end_s]

\* res.get("split_required")
GetSplitRequired(res) ==
    "split_required" \in DOMAIN res /\ res.split_required

\* r.get("text", "")
GetText(res) == IF "text" \in DOMAIN res THEN res.text ELSE <<>>

\* r.get("start_s", 0)
GetStart(res) == IF "start_s" \in DOMAIN res THEN res.start_s ELSE 0

\* last_error = None
NoError == [set |-> FALSE, msg |-> <<>>]

\* last_error = msg
SomeError(msg) == [set |-> TRUE, msg |-> msg]

\* the error text is used as it is, the empty one too
ErrorAsItIs(last_error) == last_error.msg

\* last_error or 'unknown'
ErrorOrUnknown(last_error) ==
    IF last_error.set /\ last_error.msg # <<>> THEN last_error.msg
    ELSE ReasonUnknown

(* -------------------------- transcribe_segment ------------------------- *)

\* "\n".join(collected).strip(), collected being the cleaned chunks
CollectedText(chunks) ==
    Strip(Join(<<"\n">>,
               [i \in 1..Len(chunks) |-> clean_some_unicode_from_text(chunks[i])]))

\* any text, the empty one too, counts as a transcript
TextAlwaysTruthy(text) == TRUE

\* if text:
TextTruthy(text) == text # <<>>

\* one attempt more than allowed is made
CanRetryOnceMore(attempt, attempts) == attempt <= attempts

\* if attempt < attempts:
CanRetry(attempt, attempts) == attempt < attempts

\* the placeholder result built after the retry loop
ExhaustedResult(index, start_s, end_s, last_error) ==
    TextResult(index, Placeholder(start_s, end_s, ErrorOrUnknown(last_error)),
               start_s, end_s)

\* last_error keeps the first failure instead of the last
ErrorAfterKeepsFirst(last_error, out) ==
    IF last_error.set THEN last_error
    ELSE IF out.raised THEN SomeError(out.msg) ELSE SomeError(ReasonEmpty)

\* last_error after a pass through the body of the retry loop that does not
\* return from inside it, last_error being its value before the pass:
\* last_error = "empty transcription" or last_error = msg
ErrorAfter(last_error, out) ==
    IF out.raised THEN SomeError(out.msg) ELSE SomeError(ReasonEmpty)

\* every sleep takes one second
SleepSecondsConstant(attempt) == 1

\* await asyncio.sleep(attempt): the seconds slept after attempt `attempt`
SleepSeconds(attempt) == attempt

\* One pass through the retry loop of transcribe_segment, from the end of
\* the remote call of attempt number `attempt` to the next suspension or to
\* the return: [returns, result, last_error].  returns = FALSE means the
\* coroutine goes to asyncio.sleep(attempt).
SegmentAttempt(index, segment_path, start_s, end_s, attempt, attempts, last_error, out) ==
    IF ~out.raised /\ TextTruthy(CollectedText(out.chunks))
    THEN [returns |-> TRUE, last_error |-> last_error,
          result |-> TextResult(index, CollectedText(out.chunks), start_s, end_s)]
    ELSE IF out.raised /\ PAYLOAD_ERR_RE_search(out.msg)
    THEN [returns |-> TRUE, last_error |-> last_error,
          result |-> SplitResult(index, segment_path, start_s, end_s)]
    ELSE IF CanRetry(attempt, attempts)
    THEN [returns |-> FALSE, last_error |-> ErrorAfter(last_error, out),
          result |-> NoResult]
    ELSE [returns |-> TRUE, last_error |-> ErrorAfter(last_error, out),
          result |-> ExhaustedResult(index, start_s, end_s,
                                     ErrorAfter(last_error, out))]

(* ------------------------------- state --------------------------------- *)

VARIABLES
    pc,                  \* where transcribe_file is: "start", "gather",
                         \* "expand", "done" (returned), "raised"
    work_dir,            \* the names os.listdir(work_dir) returns
    probed,              \* what _probe_duration returns for each top-level file
    max_concurrency,     \* arguments of transcribe_file
    max_segment_retries,
    max_split_depth,
    listed,              \* what os.listdir(work_dir) returned
    segments,            \* locals of transcribe_file
    starts,
    ends,
    sem,                 \* the value of the asyncio.Semaphore
    tpc,                 \* per task _run(idx, fname): "waiting", "calling",
                         \* "sleeping", "done"
    attempt,             \* per task: the loop variable of transcribe_segment
    last_error,          \* per task: the local last_error
    base_results,        \* per task: what the task returned
    ri,                  \* position of the loop over base_results
    expanded,
    stack,               \* the active calls of _recursive_split_and_transcribe
    ret,                 \* the value a splitter call has just returned
    full_text,           \* the return value of transcribe_file
    out_segments,
    log,                 \* history per task: remote calls, sleeps, outcomes
    visits,              \* history of the splitter calls
    routed,              \* tasks whose result was passed to the splitter
    probe_log,           \* history: the files _probe_duration was called on
    size_split,          \* a call of audio.split_mp3_by_size: its arguments,
                         \* what it finds on disk, and what it did
    bypass_split,        \* argument of transcribe_file
    splitter_fn,         \* argument of transcribe_file: "none" (not called),
                         \* "split_mp3" or "split_mp3_by_size"
    segmenter            \* what the ffmpeg segmenter does when it is run:
                         \* whether it exits with 0 and the files it writes

vars == <<pc, work_dir, probed, max_concurrency, max_segment_retries,
          max_split_depth, listed, segments, starts, ends, sem, tpc, attempt,
          last_error, base_results, ri, expanded, stack, ret, full_text,
          out_segments, log, visits, routed, probe_log, size_split,
          bypass_split, splitter_fn, segmenter>>

config == <<work_dir, probed, max_concurrency, max_segment_retries,
            max_split_depth, size_split, bypass_split, splitter_fn, segmenter>>

arguments == <<probed, max_concurrency, max_segment_retries, max_split_depth,
               bypass_split, splitter_fn, segmenter>>

prepared == <<listed, segments, starts, ends, probe_log>>

tasks == <<tpc, attempt, last_error, base_results, log>>

splitting == <<ri, expanded, stack, ret, visits, routed>>

returned == <<full_text, out_segments>>

\* the task of segments[j] is task j; its Python idx is j - 1
Tasks == 1..Len(segments)

\* no value returned and not yet consumed
NoRet == [has |-> FALSE, leaves |-> <<>>]

\* the history of a task that has made no remote call: the number of remote
\* calls started, the number of sleeps started, the seconds of each sleep,
\* and what each finished remote call did
NoLog == [calls |-> 0, sleeps |-> 0, slept |-> <<>>, outs |-> <<>>]

\* the error texts of RemoteOutcomes that are payload-size errors
PayloadMsgs == {MsgPayload}

\* what a remote call did, for the history: "text" (text left after
\* cleaning and stripping), "empty", "payload" or "error", the error text,
\* the text a call that ended without error yielded, and the chunks of a
\* call that yielded a text
Observed(out) ==
    [class |-> IF out.raised
               THEN IF out.msg \in PayloadMsgs THEN "payload" ELSE "error"
               ELSE IF CollectedText(out.chunks) # <<>> THEN "text" ELSE "empty",
     msg |-> IF out.raised THEN out.msg ELSE <<>>,
     text |-> IF out.raised THEN <<>> ELSE CollectedText(out.chunks),
     chunks |-> IF ~out.raised /\ CollectedText(out.chunks) # <<>>
                THEN out.chunks ELSE <<>>]

(* -------------------------------- Init ---------------------------------- *)

\* work directories of a first run: the source file and n segment files
FreshDirs == {{SourcePath} \cup {SegPath(k) : k \in 0..(n - 1)} : n \in 0..MaxSeg}

\* the work directory an earlier run over seg000.mp3 left behind: it split
\* the segment, wrote the left half, and the encoder of the right half raised
LeftoverDirs == { {SourcePath, SegPath(0), PartL(SegPath(0))} }

\* the work directories explored
WorkDirs == FreshDirs \cup LeftoverDirs

\* durations ffprobe may report for a top-level file; 0.0 is a failed probe
TopProbes == {0, ProbedSeconds * TicksPerSec}

\* what ffprobe reports for the files of S: the probe fails for no file, for
\* one file or for every file
ProbeResults(S) ==
    {p \in [S -> TopProbes] :
        Cardinality({f \in S : p[f] = 0}) \in {0, 1, Cardinality(S)}}

(* --------------------- audio.py: the splitter functions ----------------- *)

\* duration_target = max(30, duration_target)
MinSegmentSeconds == 30

\* SAFETY = 0.9, in tenths
SafetyTenths == 9

\* int(x) for the quotient x = num / den with den > 0: truncation toward zero
IntQuotient(num, den) ==
    IF num >= 0 THEN num \div den ELSE 0 - ((0 - num) \div den)

Max2(a, b) == IF a >= b THEN a ELSE b

Min2(a, b) == IF a <= b THEN a ELSE b

\* the safety factor is left out
duration_targetNoSafety(max_segment_size, bitrate_bits, fallback_seg_seconds) ==
    IF bitrate_bits.known /\ bitrate_bits.bits # 0 /\ bitrate_bits.bits > 0
    THEN Min2(fallback_seg_seconds,
              Max2(MinSegmentSeconds,
                   IntQuotient(max_segment_size * 8, bitrate_bits.bits)))
    ELSE fallback_seg_seconds

\* audio.py:69-76: int((max_segment_size * SAFETY) / (bitrate_bits / 8.0)),
\* then max(30, .), then min(fallback_seg_seconds, .); the fallback when the
\* bitrate is None or not positive
duration_target(max_segment_size, bitrate_bits, fallback_seg_seconds) ==
    IF bitrate_bits.known /\ bitrate_bits.bits # 0 /\ bitrate_bits.bits > 0
    THEN Min2(fallback_seg_seconds,
              Max2(MinSegmentSeconds,
                   IntQuotient(max_segment_size * SafetyTenths * 8,
                               10 * bitrate_bits.bits)))
    ELSE fallback_seg_seconds

\* what _get_bitrate_bits may return: None, or the integer ffprobe printed
BitrateChoices ==
    {[known |-> FALSE, bits |-> 0]}
    \cup {[known |-> TRUE, bits |-> b] : b \in {0 - 8, 0, 8, 16}}

\* max_segment_size arguments (bytes)
MaxSegmentSizes == {0, 10, 40, 100, 1000}

\* sizes of the file on disk (bytes): below every positive cap, above every cap
DiskSizes == {5, 2000}

\* fallback_seg_seconds arguments (seconds)
FallbackChoices == {20, 30, 60, 600}

\* seg000.mp3, the name out_pattern.replace("%03d", "000") gives
SingleOut == SegPath(0)

\* transcribe_file does not call split_mp3_by_size
NoSizeSplit ==
    [pc |-> "idle", exists |-> FALSE, raw_size |-> 0, max_segment_size |-> 0,
     bitrate_bits |-> [known |-> FALSE, bits |-> 0], fallback_seg_seconds |-> 0,
     copied_to |-> <<>>, segment_time |-> 0]

\* as MaxWork, for the runs that call splitter_fn
MaxSplitWork == 2

\* largest number of files the ffmpeg segmenter writes in one run
MaxWritten == 2

\* subprocess.check_call raises CalledProcessError: ffmpeg exits with 1
SegmenterFails == [ok |-> FALSE, written |-> 0]

\* what the segmenter may do on the directory dir: fail, or, when the source
\* recording is there, exit with 0 after writing seg000.mp3, seg001.mp3, ...
Segmenters(dir) ==
    {SegmenterFails}
    \cup (IF SourcePath \in dir
          THEN {[ok |-> TRUE, written |-> n] : n \in 1..MaxWritten}
          ELSE {})

\* the files out_pattern names for a segmenter run that writes n files
Written(n) == {SegPath(k) : k \in 0..(n - 1)}

\* split_mp3_by_size(mp3_path, out_pattern, max_segment_size,
\* fallback_seg_seconds) from its entry to its return or raise, ss holding
\* the arguments and what is on disk, seg what the segmenter does: raise
\* FileNotFoundError, copy the file to seg000.mp3, or run the segmenter with
\* duration_target, which may raise
SizeSplitRun(ss, seg) ==
    IF ~ss.exists
    THEN [ss EXCEPT !.pc = "raised"]
    ELSE IF ss.raw_size <= ss.max_segment_size
    THEN [ss EXCEPT !.pc = "copied", !.copied_to = <<SingleOut>>]
    ELSE [ss EXCEPT
            !.pc = IF seg.ok THEN "segmented" ELSE "failed",
            !.segment_time = duration_target(ss.max_segment_size,
                                             ss.bitrate_bits,
                                             ss.fallback_seg_seconds)]

\* the directory after the call SizeSplitRun(ss, seg) on the directory dir
SizeSplitDir(dir, ss, seg) ==
    LET after == SizeSplitRun(ss, seg)
    IN  IF after.pc = "copied" THEN dir \cup {SingleOut}
        ELSE IF after.pc = "segmented" THEN dir \cup Written(seg.written)
        ELSE dir

\* split_mp3(mp3_path, out_pattern, seg_seconds): the directory after a run
\* of the segmenter that exits with 0
SplitMp3Dir(dir, seg) == dir \cup Written(seg.written)

\* model.py:100-104: the segments are listed as they are (bypass_split), or
\* after the call splitter_fn(mp3_full_path, out_pattern, seg_seconds):
\* whether that call raises, the directory after it and the state of the
\* split_mp3_by_size call
SplitterCall(bypass, fn, dir, ss, seg) ==
    IF bypass \/ fn = "none"
    THEN [raised |-> FALSE, dir |-> dir, size_split |-> ss]
    ELSE IF fn = "split_mp3"
    THEN [raised |-> ~seg.ok,
          dir |-> IF seg.ok THEN SplitMp3Dir(dir, seg) ELSE dir,
          size_split |-> ss]
    ELSE [raised |-> SizeSplitRun(ss, seg).pc \in {"raised", "failed"},
          dir |-> SizeSplitDir(dir, ss, seg),
          size_split |-> SizeSplitRun(ss, seg)]

\* work directories of a run that calls the splitter: empty, with the source
\* recording, and with a segment an earlier run left
SplitDirs == {{}, {SourcePath}, {SourcePath, SegPath(0)}}

\* the split_mp3_by_size calls a splitter_fn built on it makes on dir: the
\* cap is fixed by the caller, the fallback is seg_seconds, the recording is
\* below the cap (at the payload cap, or above it) or above the cap
SizeSplitCalls(dir) ==
    {[pc |-> "start", exists |-> SourcePath \in dir, raw_size |-> r,
      max_segment_size |-> 1000, bitrate_bits |-> [known |-> TRUE, bits |-> 16],
      fallback_seg_seconds |-> SegSeconds, copied_to |-> <<>>,
      segment_time |-> 0] : r \in {PayloadSizeCap} \cup DiskSizes}

\* the splitter_fn arguments with what they meet: split_mp3 and the
\* segmenter, or split_mp3_by_size with its call and, when the call gets
\* that far, the segmenter
SplitterChoices(dir) ==
    {<<"split_mp3", NoSizeSplit, seg>> : seg \in Segmenters(dir)}
    \cup {<<"split_mp3_by_size", ss, SegmenterFails>> : ss \in SizeSplitCalls(dir)}
    \cup {c \in {<<"split_mp3_by_size", ss, seg>> :
                    ss \in SizeSplitCalls(dir), seg \in Segmenters(dir)} :
            c[3].ok /\ SizeSplitRun(c[2], c[3]).pc = "segmented"}

\* the directory transcribe_file lists
ListedDir ==
    SplitterCall(bypass_split, splitter_fn, work_dir, size_split, segmenter).dir

Init ==
    /\ pc = "start"
    /\ bypass_split \in BOOLEAN
    /\ work_dir \in IF bypass_split THEN WorkDirs ELSE SplitDirs
    /\ \E c \in IF bypass_split THEN {<<"none", NoSizeSplit, SegmenterFails>>}
                 ELSE SplitterChoices(work_dir) :
          /\ splitter_fn = c[1]
          /\ size_split = c[2]
          /\ segmenter = c[3]
    /\ probed \in ProbeResults({f \in ListedDir : SegNameMatch(f)})
    /\ max_concurrency \in 0..MaxConc
    /\ max_segment_retries \in 0..MaxRetries
    /\ max_split_depth \in 0..MaxDepthBound
    /\ Cardinality({f \in ListedDir : SegNameMatch(f)})
          * (max_segment_retries + 1) * (2 ^ max_split_depth)
            <= IF bypass_split THEN MaxWork ELSE MaxSplitWork
    /\ listed = {}
    /\ segments = <<>>
    /\ starts = <<>>
    /\ ends = <<>>
    /\ sem = 0
    /\ tpc = <<>>
    /\ attempt = <<>>
    /\ last_error = <<>>
    /\ base_results = <<>>
    /\ ri = 0
    /\ expanded = <<>>
    /\ stack = <<>>
    /\ ret = NoRet
    /\ full_text = <<>>
    /\ out_segments = <<>>
    /\ log = <<>>
    /\ visits = <<>>
    /\ routed = {}
    /\ probe_log = <<>>

(* --------------------- transcribe_file: preparation --------------------- *)

\* the probed value is used as it is, 0.0 too
SegDurationNoFallback(p) == probed[p]

\* d = _probe_duration(p) or float(seg_seconds)
SegDuration(p) ==
    IF probed[p] # 0 THEN probed[p] ELSE SegSeconds * TicksPerSec

RECURSIVE Cursor(_, _)
\* the value of cursor after the first k files of segs
Cursor(segs, k) ==
    IF k = 0 THEN 0 ELSE Cursor(segs, k - 1) + SegDuration(segs[k])

\* the early return is never taken
NoSegmentsNever(segs) == FALSE

\* if not segments:
NoSegments(segs) == segs = <<>>

\* transcribe_file up to asyncio.gather: call splitter_fn unless
\* bypass_split, which may raise out of transcribe_file; list and sort the
\* segment files, return at once when there are none, else compute the time
\* ranges, make the semaphore and create one task per segment
Prepare ==
    /\ pc = "start"
    /\ LET call == SplitterCall(bypass_split, splitter_fn, work_dir,
                                size_split, segmenter)
           segs == ListSegments(call.dir)
           n == Len(segs)
       IN  /\ work_dir' = call.dir
           /\ size_split' = call.size_split
           /\ IF call.raised
              THEN /\ pc' = "raised"
                   /\ UNCHANGED <<listed, segments, starts, ends, sem, tasks,
                                  probe_log>>
              ELSE IF NoSegments(segs)
              THEN /\ pc' = "done"
                   /\ listed' = call.dir
                   /\ segments' = segs
                   /\ UNCHANGED <<starts, ends, sem, tasks, probe_log>>
              ELSE /\ pc' = "gather"
                   /\ listed' = call.dir
                   /\ segments' = segs
                   /\ starts' = [j \in 1..n |-> Cursor(segs, j - 1)]
                   /\ ends' = [j \in 1..n |-> Cursor(segs, j)]
                   /\ sem' = max_concurrency
                   /\ tpc' = [j \in 1..n |-> "waiting"]
                   /\ attempt' = [j \in 1..n |-> 0]
                   /\ last_error' = [j \in 1..n |-> NoError]
                   /\ base_results' = [j \in 1..n |-> NoResult]
                   /\ log' = [j \in 1..n |-> NoLog]
                   /\ probe_log' = probe_log \o segs
    /\ full_text' = <<>>
    /\ out_segments' = <<>>
    /\ UNCHANGED <<arguments, splitting>>

(* ------------------------ the tasks _run(idx, fname) -------------------- *)

\* a gate that admits every task
CanAcquireUnbounded == TRUE

\* a fixed batch: a task is admitted only while no permit is taken
CanAcquireWhenIdle == sem = max_concurrency

\* a gate that lets a task in at value zero
CanAcquireAtZero == sem >= 0

\* sem.acquire() returns without waiting
CanAcquire == sem > 0

\* the gate wakes whichever waiting task it likes
AnyWaiter(j) == tpc[j] = "waiting"

\* the task whose acquire() returns next: the tasks reach sem.acquire() in
\* the order create_task was called on them (model.py:120), and the
\* semaphore wakes its waiters first come, first served
IsNextWaiter(j) ==
    /\ tpc[j] = "waiting"
    /\ \A i \in 1..(j - 1) : tpc[i] # "waiting"

\* a task enters "async with sem" and transcribe_segment starts attempt 1:
\* the remote call is in flight
TaskStart(j) ==
    /\ pc = "gather"
    /\ IsNextWaiter(j)
    /\ CanAcquire
    /\ sem' = sem - 1
    /\ tpc' = [tpc EXCEPT ![j] = "calling"]
    /\ attempt' = [attempt EXCEPT ![j] = 1]
    /\ log' = [log EXCEPT ![j].calls = @ + 1]
    /\ UNCHANGED <<pc, config, prepared, last_error, base_results, splitting,
                   returned>>

\* the permit is kept when the task returns a split signal
SemAfterExitLeaksOnSignal(s, result) ==
    IF GetSplitRequired(result) THEN s ELSE s + 1

\* the value of the semaphore after a task that returns result has left
\* "async with sem": __aexit__ releases whatever is returned
SemAfterExit(s, result) == s + 1

\* the permit is handed back for the time of the sleep
SemReleasedForSleep(s) == s + 1

\* the value of the semaphore while a task is in asyncio.sleep between two
\* attempts: the sleep is inside "async with sem", nothing is released
SemWhileAsleep(s) == s

\* results are stored in the order in which the tasks return
SlotByCompletion(j) == Cardinality({i \in 1..Len(tpc) : tpc[i] = "done"}) + 1

\* asyncio.gather returns the results in the order of the awaitables it was
\* given: the result of task j is base_results[j]
ResultSlot(j) == j

\* the history of a task after a remote call ended with outcome out
Logged(l, out) == [l EXCEPT !.outs = Append(@, Observed(out))]

\* the remote call of a task ends with outcome out; the task returns its
\* result and leaves "async with sem", or goes to sleep before a retry
TaskRemoteEnds(j, out) ==
    /\ pc = "gather"
    /\ tpc[j] = "calling"
    /\ LET step == SegmentAttempt((j - 1) * TicksPerSec, segments[j],
                                  starts[j], ends[j], attempt[j],
                                  max_segment_retries + 1, last_error[j], out)
       IN  /\ last_error' = [last_error EXCEPT ![j] = step.last_error]
           /\ IF step.returns
              THEN /\ tpc' = [tpc EXCEPT ![j] = "done"]
                   /\ base_results' = [base_results EXCEPT
                                         ![ResultSlot(j)] = step.result]
                   /\ sem' = SemAfterExit(sem, step.result)
                   /\ log' = [log EXCEPT ![j] = Logged(@, out)]
              ELSE /\ tpc' = [tpc EXCEPT ![j] = "sleeping"]
                   /\ log' = [log EXCEPT ![j] =
                                [Logged(@, out) EXCEPT
                                    !.sleeps = @ + 1,
                                    !.slept = Append(@, SleepSeconds(attempt[j]))]]
                   /\ sem' = SemWhileAsleep(sem)
                   /\ UNCHANGED base_results
    /\ UNCHANGED <<pc, config, prepared, attempt, splitting, returned>>

\* asyncio.sleep(attempt) ends: the next attempt's remote call starts
TaskWakes(j) ==
    /\ pc = "gather"
    /\ tpc[j] = "sleeping"
    /\ tpc' = [tpc EXCEPT ![j] = "calling"]
    /\ attempt' = [attempt EXCEPT ![j] = @ + 1]
    /\ log' = [log EXCEPT ![j].calls = @ + 1]
    /\ UNCHANGED <<pc, config, prepared, sem, last_error, base_results,
                   splitting, returned>>

(* ------------------- transcribe_file: after the gather ------------------ *)

\* a gather that returns as soon as one task has returned
AnyTaskDone == \E j \in Tasks : tpc[j] = "done"

\* a gather that returns as soon as no task holds the gate
NoTaskInFlight == \A j \in Tasks : tpc[j] \notin {"calling", "sleeping"}

\* asyncio.gather returns when every task has returned
AllTasksDone == \A j \in Tasks : tpc[j] = "done"

\* base_results is complete: the loop over it starts
GatherReturns ==
    /\ pc = "gather"
    /\ AllTasksDone
    /\ pc' = "expand"
    /\ ri' = 1
    /\ UNCHANGED <<config, prepared, sem, tasks, expanded, stack, ret, visits,
                   routed, returned>>

\* one call _encode_slice(src, dst, start, dur), for the history
EncodeCall(src, dst, start, dur) ==
    [src |-> src, dst |-> dst, start |-> start, dur |-> dur]

\* a new call of _recursive_split_and_transcribe
Frame(path, start_s, end_s, depth, vid) ==
    [path |-> path, start_s |-> start_s, end_s |-> end_s, depth |-> depth,
     pc |-> "enter", raw_size |-> 0, dur |-> 0, half |-> 0,
     left_res |-> <<>>, vid |-> vid]

\* the history entry of a new splitter call
Visit(path, start_s, end_s, depth, root) ==
    [path |-> path, start_s |-> start_s, end_s |-> end_s, depth |-> depth,
     root |-> root, sized |-> FALSE, raw_size |-> 0, calls |-> 0, outs |-> <<>>,
     probe |-> 0, encs |-> <<>>, enc_failed |-> FALSE, returned |-> FALSE,
     leaves |-> <<>>]

\* every result is accepted as a leaf
RouteNothing(res) == FALSE

\* if res.get("split_required")
RouteToSplitter(res) == GetSplitRequired(res)

\* one pass of "for res in base_results" up to the await of the splitter
\* (split_required) or through expanded.append(res)
ExpandNext ==
    /\ pc = "expand"
    /\ stack = <<>>
    /\ ~ret.has
    /\ ri <= Len(base_results)
    /\ LET res == base_results[ri]
       IN  IF RouteToSplitter(res)
           THEN /\ stack' = <<Frame(res.segment_path, res.start_s, res.end_s,
                                    0, Len(visits) + 1)>>
                /\ visits' = Append(visits, Visit(res.segment_path, res.start_s,
                                                  res.end_s, 0, ri))
                /\ routed' = routed \cup {ri}
                /\ UNCHANGED <<ri, expanded>>
           ELSE /\ expanded' = Append(expanded, res)
                /\ ri' = ri + 1
                /\ UNCHANGED <<stack, visits, routed>>
    /\ UNCHANGED <<pc, config, prepared, sem, tasks, ret, returned>>

\* only the first of the splitter's leaves is kept
ExtendedByFirstLeaf(exp, leaves) == Append(exp, leaves[1])

\* expanded.extend(leaves)
Extended(exp, leaves) == exp \o leaves

\* the splitter returned to transcribe_file: expanded.extend(...)
ExpandExtend ==
    /\ pc = "expand"
    /\ stack = <<>>
    /\ ret.has
    /\ expanded' = Extended(expanded, ret.leaves)
    /\ ri' = ri + 1
    /\ ret' = NoRet
    /\ UNCHANGED <<pc, config, prepared, sem, tasks, stack, visits, routed,
                   returned>>

RECURSIVE InsertBeforeEqual(_, _)
\* sorted with r put before the first element whose start_s is >= r's
InsertBeforeEqual(sorted, r) ==
    IF sorted = <<>> THEN <<r>>
    ELSE IF GetStart(Head(sorted)) < GetStart(r)
    THEN <<Head(sorted)>> \o InsertBeforeEqual(Tail(sorted), r)
    ELSE <<r>> \o sorted

RECURSIVE InsertByStart(_, _)
\* sorted with r put after every element whose start_s is <= r's
InsertByStart(sorted, r) ==
    IF sorted = <<>> THEN <<r>>
    ELSE IF GetStart(Head(sorted)) <= GetStart(r)
    THEN <<Head(sorted)>> \o InsertByStart(Tail(sorted), r)
    ELSE <<r>> \o sorted

\* no sort: the results stay in the order of emission
SortSkipped(rs) == rs

RECURSIVE SortByStart(_)
\* expanded.sort(key=lambda r: r.get("start_s", 0)): a stable sort
SortByStart(rs) ==
    IF rs = <<>> THEN <<>>
    ELSE InsertByStart(SortByStart(SubSeq(rs, 1, Len(rs) - 1)), rs[Len(rs)])

\* "\n\n".join(r.get("text", "") for r in expanded)
JoinTexts(rs) == Join(<<"\n\n">>, [i \in 1..Len(rs) |-> GetText(rs[i])])

\* the loop is over: sort, join, return
Finish ==
    /\ pc = "expand"
    /\ stack = <<>>
    /\ ~ret.has
    /\ ri > Len(base_results)
    /\ expanded' = SortByStart(expanded)
    /\ full_text' = JoinTexts(SortByStart(expanded))
    /\ out_segments' = segments
    /\ pc' = "done"
    /\ UNCHANGED <<config, prepared, sem, tasks, ri, stack, ret, visits, routed>>

(* ------------------- _recursive_split_and_transcribe -------------------- *)

\* sizes os.path.getsize may report for a file the segmenter or the encoder
\* wrote, or an earlier run left: at the payload cap and above it
FileSizes == {PayloadSizeCap, PayloadSizeCap + 1}

\* every size the splitter may read: of those files, and of the recording
\* split_mp3_by_size copied
AllSizes == FileSizes \cup DiskSizes

\* raw_size = os.path.getsize(path) for the file of frame f: seg000.mp3 is
\* the copy of the recording when split_mp3_by_size took its copy branch
\* (shutil.copyfile keeps the bytes), so its size is the one read there
SizeChoices(f) ==
    IF size_split.pc = "copied" /\ f.path = SingleOut
    THEN {size_split.raw_size}
    ELSE FileSizes

\* durations ffprobe may report for a half the encoder wrote at depth d > 0:
\* 0.0 (unknown) or a value that differs from the requested duration
HalfProbes(d) == {0, 3 * (2 ^ (MaxDepthBound - d))}

AllProbes == TopProbes \cup UNION {HalfProbes(d) : d \in 0..MaxDepthBound}

\* what _probe_duration(path) may return for the file of frame f
ProbeChoices(f) ==
    IF f.path \in DOMAIN probed THEN {probed[f.path]} ELSE HalfProbes(f.depth)

\* the recursion goes one level below max_depth
IsBaseCaseOneDeeper(raw_size, depth) ==
    raw_size <= PayloadSizeCap \/ depth > max_split_depth

\* the depth is not looked at: only a small enough file ends the recursion
IsBaseCaseBySizeOnly(raw_size, depth) == raw_size <= PayloadSizeCap

\* if raw_size <= payload_size_cap or depth >= max_depth
IsBaseCase(raw_size, depth) ==
    raw_size <= PayloadSizeCap \/ depth >= max_split_depth

\* the size is not looked at again inside the base case
NeverTooLarge(raw_size) == FALSE

\* if raw_size > payload_size_cap (inside the base case)
IsTooLarge(raw_size) == raw_size > PayloadSizeCap

\* the probed duration is not used
SplitDurationFromRange(probe, start_s, end_s) ==
    IF end_s - start_s # 0 THEN end_s - start_s ELSE TicksPerSec

\* dur = _probe_duration(path) or (end_s - start_s) or 1.0
SplitDuration(probe, start_s, end_s) ==
    IF probe # 0 THEN probe
    ELSE IF end_s - start_s # 0 THEN end_s - start_s
    ELSE TicksPerSec

Top == stack[Len(stack)]

Pop == SubSeq(stack, 1, Len(stack) - 1)

SetTop(f) == [stack EXCEPT ![Len(stack)] = f]

\* a splitter call returns leaves to its caller
Returns(vid, leaves) ==
    /\ ret' = [has |-> TRUE, leaves |-> leaves]
    /\ stack' = Pop
    /\ visits' = [visits EXCEPT ![vid].returned = TRUE, ![vid].leaves = leaves]

\* the placeholder leaves of the splitter carry index = start_s
SplitPlaceholder(start_s, end_s, reason) ==
    TextResult(start_s, Placeholder(start_s, end_s, reason), start_s, end_s)

\* entry of a splitter call up to its first suspension or call: read the
\* size, then return the too-large placeholder, start the one remote call
\* of the base case, or compute dur and half for the bisection
SplitEnter(raw_size, probe) ==
    /\ pc = "expand"
    /\ stack # <<>>
    /\ Top.pc = "enter"
    /\ raw_size \in SizeChoices(Top)
    /\ probe \in ProbeChoices(Top)
    /\ LET f == Top
           v == [visits[f.vid] EXCEPT !.sized = TRUE, !.raw_size = raw_size]
       IN  IF IsBaseCase(raw_size, f.depth)
           THEN IF IsTooLarge(raw_size)
                THEN /\ ret' = [has |-> TRUE, leaves |->
                                  <<SplitPlaceholder(f.start_s, f.end_s,
                                                     ReasonTooLarge)>>]
                     /\ stack' = Pop
                     /\ visits' = [visits EXCEPT ![f.vid] =
                                     [v EXCEPT !.returned = TRUE, !.leaves =
                                        <<SplitPlaceholder(f.start_s, f.end_s,
                                                           ReasonTooLarge)>>]]
                     /\ UNCHANGED probe_log
                ELSE /\ stack' = SetTop([f EXCEPT !.pc = "calling",
                                                  !.raw_size = raw_size])
                     /\ visits' = [visits EXCEPT ![f.vid] =
                                     [v EXCEPT !.calls = @ + 1]]
                     /\ UNCHANGED <<ret, probe_log>>
           ELSE LET dur == SplitDuration(probe, f.start_s, f.end_s)
                IN  /\ stack' = SetTop([f EXCEPT !.pc = "encodeL",
                                                 !.raw_size = raw_size,
                                                 !.dur = dur,
                                                 !.half = dur \div 2])
                    /\ visits' = [visits EXCEPT ![f.vid] =
                                    [v EXCEPT !.probe = probe]]
                    /\ probe_log' = Append(probe_log, f.path)
                    /\ UNCHANGED ret
    /\ UNCHANGED <<pc, config, listed, segments, starts, ends, sem, tasks, ri,
                   expanded, routed, returned>>

\* the result of the call is appended as it is, a split signal too
BaseCaseLeafKeepsSignal(f, out) ==
    SegmentAttempt(IntOf(f.start_s), f.path, f.start_s, f.end_s,
                   1, 0 + 1, NoError, out).result

\* term after the one call of transcribe_segment in the base case
BaseCaseLeaf(f, out) ==
    LET step == SegmentAttempt(IntOf(f.start_s), f.path, f.start_s, f.end_s,
                               1, 0 + 1, NoError, out)
    IN  IF GetSplitRequired(step.result)
        THEN SplitPlaceholder(f.start_s, f.end_s, ReasonPersistent)
        ELSE step.result

\* the remote call of the base case ends with outcome out
SplitRemoteEnds(out) ==
    /\ pc = "expand"
    /\ stack # <<>>
    /\ Top.pc = "calling"
    /\ ret' = [has |-> TRUE, leaves |-> <<BaseCaseLeaf(Top, out)>>]
    /\ stack' = Pop
    /\ visits' = [visits EXCEPT ![Top.vid].returned = TRUE,
                                ![Top.vid].leaves = <<BaseCaseLeaf(Top, out)>>,
                                ![Top.vid].outs = Append(@, Observed(out))]
    /\ UNCHANGED <<pc, config, prepared, sem, tasks, ri, expanded, routed,
                   returned>>

\* _encode_slice(path, left_path, 0.0, half): ffmpeg succeeds and
\* f"{path}_partL.mp3" is in work_dir (written, or overwritten with -y), or
\* check_call raises before a file is there and the exception leaves
\* transcribe_file
EncodeLeft(ok) ==
    /\ pc = "expand"
    /\ stack # <<>>
    /\ Top.pc = "encodeL"
    /\ work_dir' = IF ok THEN work_dir \cup {PartL(Top.path)} ELSE work_dir
    /\ visits' = [visits EXCEPT ![Top.vid].encs =
                                    Append(@, EncodeCall(Top.path, PartL(Top.path),
                                                         0, Top.half)),
                                ![Top.vid].enc_failed = ~ok]
    /\ IF ok
       THEN /\ stack' = SetTop([Top EXCEPT !.pc = "encodeR"])
            /\ UNCHANGED pc
       ELSE /\ stack' = <<>>
            /\ pc' = "raised"
    /\ UNCHANGED <<arguments, size_split, prepared, sem, tasks, ri, expanded,
                   ret, routed, returned>>

\* _encode_slice(path, right_path, half, dur - half) puts
\* f"{path}_partR.mp3" in work_dir, then the recursive call on the left half
\* starts
EncodeRight(ok) ==
    /\ pc = "expand"
    /\ stack # <<>>
    /\ Top.pc = "encodeR"
    /\ work_dir' = IF ok THEN work_dir \cup {PartR(Top.path)} ELSE work_dir
    /\ LET f == Top
           vid == Len(visits) + 1
           enc == [visits EXCEPT ![f.vid].encs =
                                     Append(@, EncodeCall(f.path, PartR(f.path),
                                                          f.half, f.dur - f.half)),
                                 ![f.vid].enc_failed = ~ok]
       IN  IF ok
           THEN /\ stack' = Append(SetTop([f EXCEPT !.pc = "awaitL"]),
                                   Frame(PartL(f.path), f.start_s,
                                         f.start_s + f.half, f.depth + 1, vid))
                /\ visits' = Append(enc, Visit(PartL(f.path), f.start_s,
                                               f.start_s + f.half, f.depth + 1,
                                               visits[f.vid].root))
                /\ UNCHANGED pc
           ELSE /\ stack' = <<>>
                /\ visits' = enc
                /\ pc' = "raised"
    /\ UNCHANGED <<arguments, size_split, prepared, sem, tasks, ri, expanded,
                   ret, routed, returned>>

\* the offset inside the file is taken for the offset in the recording
RightStartInFile(f) == f.half

\* start_s + half: where the range of the right half starts
RightStart(f) == f.start_s + f.half

\* left_res is back: the recursive call on the right half starts
SplitResumeLeft ==
    /\ pc = "expand"
    /\ stack # <<>>
    /\ ret.has
    /\ Top.pc = "awaitL"
    /\ LET f == Top
           vid == Len(visits) + 1
       IN  /\ stack' = Append(SetTop([f EXCEPT !.pc = "awaitR",
                                               !.left_res = ret.leaves]),
                              Frame(PartR(f.path), RightStart(f), f.end_s,
                                    f.depth + 1, vid))
           /\ visits' = Append(visits, Visit(PartR(f.path), RightStart(f),
                                             f.end_s, f.depth + 1,
                                             visits[f.vid].root))
    /\ ret' = NoRet
    /\ UNCHANGED <<pc, config, prepared, sem, tasks, ri, expanded, routed,
                   returned>>

\* only the leaves of the left half are returned
JoinHalvesLeftOnly(left_res, right_res) == left_res

\* left_res + right_res
JoinHalves(left_res, right_res) == left_res \o right_res

\* right_res is back: return left_res + right_res
SplitResumeRight ==
    /\ pc = "expand"
    /\ stack # <<>>
    /\ ret.has
    /\ Top.pc = "awaitR"
    /\ Returns(Top.vid, JoinHalves(Top.left_res, ret.leaves))
    /\ UNCHANGED <<pc, config, prepared, sem, tasks, ri, expanded, routed,
                   returned>>

(* ------------------------------- Next ----------------------------------- *)

Next ==
    \/ Prepare
    \/ \E j \in Tasks : TaskStart(j)
    \/ \E j \in Tasks, out \in RemoteOutcomes : TaskRemoteEnds(j, out)
    \/ \E j \in Tasks : TaskWakes(j)
    \/ GatherReturns
    \/ ExpandNext
    \/ ExpandExtend
    \/ \E raw_size \in AllSizes, probe \in AllProbes : SplitEnter(raw_size, probe)
    \/ \E out \in RemoteOutcomes : SplitRemoteEnds(out)
    \/ \E ok \in BOOLEAN : EncodeLeft(ok)
    \/ \E ok \in BOOLEAN : EncodeRight(ok)
    \/ SplitResumeLeft
    \/ SplitResumeRight
    \/ Finish

Spec == Init /\ [][Next]_vars

\* the steps of a splitter call that run without waiting for the remote
\* service: the entry, the two encoder calls and the two resumptions
SplitLocal ==
    \/ \E raw_size \in AllSizes, probe \in AllProbes : SplitEnter(raw_size, probe)
    \/ \E ok \in BOOLEAN : EncodeLeft(ok)
    \/ \E ok \in BOOLEAN : EncodeRight(ok)
    \/ SplitResumeLeft
    \/ SplitResumeRight

\* the interpreter goes on executing a coroutine that is not suspended
FairSpec == Spec /\ WF_vars(SplitLocal)

\* the steps of task j: its acquire returns, its remote call ends, its
\* sleep ends
TaskStep(j) ==
    /\ j \in Tasks
    /\ \/ TaskStart(j)
       \/ \E out \in RemoteOutcomes : TaskRemoteEnds(j, out)
       \/ TaskWakes(j)

\* the event loop runs every task that can run, and every remote call and
\* every sleep of a task comes to an end
GateFairSpec == Spec /\ \A j \in 1..MaxSeg : WF_vars(TaskStep(j))

(* ------------------ split_mp3_by_size called on its own ----------------- *)

\* a call of split_mp3_by_size is about to start
SizeSplitInit ==
    /\ size_split \in
          {[pc |-> "start", exists |-> x, raw_size |-> r, max_segment_size |-> m,
            bitrate_bits |-> b, fallback_seg_seconds |-> f,
            copied_to |-> <<>>, segment_time |-> 0] :
              x \in BOOLEAN, r \in DiskSizes, m \in MaxSegmentSizes,
              b \in BitrateChoices, f \in FallbackChoices}
    /\ segmenter \in Segmenters({SourcePath})
    /\ bypass_split = FALSE
    /\ splitter_fn = "split_mp3_by_size"
    /\ pc = "start"
    /\ work_dir = IF size_split.exists THEN {SourcePath} ELSE {}
    /\ probed \in ProbeResults({})
    /\ max_concurrency = 0
    /\ max_segment_retries = 0
    /\ max_split_depth = 0
    /\ listed = {}
    /\ segments = <<>>
    /\ starts = <<>>
    /\ ends = <<>>
    /\ sem = 0
    /\ tpc = <<>>
    /\ attempt = <<>>
    /\ last_error = <<>>
    /\ base_results = <<>>
    /\ ri = 0
    /\ expanded = <<>>
    /\ stack = <<>>
    /\ ret = NoRet
    /\ full_text = <<>>
    /\ out_segments = <<>>
    /\ log = <<>>
    /\ visits = <<>>
    /\ routed = {}
    /\ probe_log = <<>>

\* split_mp3_by_size called by a caller of its own: raise when the file is
\* missing, copy it to seg000.mp3 when it is within the cap, else run the
\* segmenter with duration_target
SplitMp3BySize ==
    /\ size_split.pc = "start"
    /\ size_split' = SizeSplitRun(size_split, segmenter)
    /\ work_dir' = SizeSplitDir(work_dir, size_split, segmenter)
    /\ UNCHANGED <<pc, arguments, prepared, sem, tasks, splitting, returned>>

SizeSplitNext == SplitMp3BySize

SizeSplitSpec == SizeSplitInit /\ [][SizeSplitNext]_vars

(* ------------------------------ claims ---------------------------------- *)

\* tasks that hold the gate: transcribe_segment has been entered and has not
\* returned (its remote call or its backoff sleep is pending)
InFlightTasks == {j \in Tasks : tpc[j] \in {"calling", "sleeping"}}

\* splitter calls whose remote call is pending
InFlightSplits == {i \in 1..Len(stack) : stack[i].pc = "calling"}

\* C1: for max_concurrency = N >= 1, at most N top-level transcribe_segment
\* invocations are in flight in every reachable state
C1_TopLevelBound ==
    max_concurrency >= 1 => Cardinality(InFlightTasks) <= max_concurrency

\* C1 witness: the gate is full, one holder sleeps between retries after a
\* failure while another task waits at the gate
C1_Witness ==
    /\ max_concurrency >= 1
    /\ Cardinality(InFlightTasks) = max_concurrency
    /\ \E j \in Tasks : tpc[j] = "sleeping"
    /\ \E j \in Tasks : tpc[j] = "waiting"

\* C2: remote calls of the splitter count against the same bound: top-level
\* calls in flight plus splitter calls in flight never exceed max_concurrency
\* (for max_concurrency >= 1)
C2_GlobalBound ==
    max_concurrency >= 1 =>
        Cardinality(InFlightTasks) + Cardinality(InFlightSplits)
            <= max_concurrency

\* C2 witness: two segments needed splitting and a remote call made below the
\* root of a split tree is in flight with max_concurrency = 1
C2_Witness ==
    /\ max_concurrency = 1
    /\ Cardinality({j \in Tasks : GetSplitRequired(base_results[j])}) >= 2
    /\ \E i \in InFlightSplits : stack[i].depth >= 1

IsSortedByStart(rs) ==
    \A i \in 1..Len(rs), k \in 1..Len(rs) :
        i < k => GetStart(rs[i]) <= GetStart(rs[k])

\* C3: in the returned transcript the leaf texts are in ascending start_s
\* order, whatever the order in which the tasks completed
C3_TranscriptOrdered ==
    pc = "done" =>
        /\ IsSortedByStart(expanded)
        /\ full_text = JoinTexts(expanded)

\* C3 witness: a run that returned at least three leaves, a split of which
\* emitted its leaves out of start_s order
C3_Witness ==
    /\ pc = "done"
    /\ Len(expanded) >= 3
    /\ \E v \in 1..Len(visits) :
          visits[v].returned /\ ~IsSortedByStart(visits[v].leaves)

Outs(j) == log[j].outs

LastOut(j) == Outs(j)[Len(Outs(j))]

\* the Python idx of task j, as the "index" key holds it
IndexOf(j) == (j - 1) * TicksPerSec

\* the leaves of the root splitter call made for task j, if it has returned
RootLeaves(j) ==
    {visits[v].leaves : v \in {w \in 1..Len(visits) :
        visits[w].root = j /\ visits[w].depth = 0 /\ visits[w].returned}}

\* the transcript holds a leaf for task j: its own result, or the leaves the
\* splitter returned for it
Covered(j) ==
    \/ /\ "text" \in DOMAIN base_results[j]
       /\ base_results[j] \in Range(expanded)
    \/ \E ls \in RootLeaves(j) : ls # <<>> /\ Range(ls) \subseteq Range(expanded)

\* C4: no segment's failure aborts the run: with max_concurrency >= 1 and a
\* non-empty segment list transcribe_file never raises, and the transcript it
\* returns holds at least one leaf text for every top-level segment
C4_RunNeverAborts ==
    (max_concurrency >= 1 /\ pc # "start" /\ segments # <<>>) =>
        /\ pc # "raised"
        /\ pc = "done" => \A j \in Tasks : Covered(j)

AllErrors(j) == \A k \in 1..Len(Outs(j)) : Outs(j)[k].class = "error"

\* the result of a task whose retries are exhausted, with the given reason
FailedWith(j, reason) ==
    TextResult(IndexOf(j), Placeholder(starts[j], ends[j], reason),
               starts[j], ends[j])

\* C5 as claimed: a task whose every remote call raised a non-payload error
\* made exactly max_segment_retries + 1 calls and returned the placeholder
\* whose reason is the error text of the last attempt
C5_ReasonIsLastErrorText ==
    \A j \in Tasks :
        /\ log[j].calls <= max_segment_retries + 1
        /\ (tpc[j] = "done" /\ Outs(j) # <<>> /\ AllErrors(j)) =>
              /\ log[j].calls = max_segment_retries + 1
              /\ base_results[j] = FailedWith(j, LastOut(j).msg)

\* C5 amended: as claimed, except that the reason is "unknown" when the
\* error text of the last attempt is empty
C5_ReasonIsLastErrorOrUnknown ==
    \A j \in Tasks :
        /\ log[j].calls <= max_segment_retries + 1
        /\ (tpc[j] = "done" /\ Outs(j) # <<>> /\ AllErrors(j)) =>
              /\ log[j].calls = max_segment_retries + 1
              /\ base_results[j] =
                    FailedWith(j, IF LastOut(j).msg = <<>> THEN ReasonUnknown
                                  ELSE LastOut(j).msg)

\* C5 witness: a task failed twice with different error texts and returned
\* the placeholder that names the second
C5_Witness ==
    \E j \in Tasks :
        /\ tpc[j] = "done"
        /\ max_segment_retries = 1
        /\ Len(Outs(j)) = 2
        /\ AllErrors(j)
        /\ Outs(j)[1].msg = MsgBlank
        /\ Outs(j)[2].msg = MsgBoom
        /\ base_results[j] = FailedWith(j, MsgBoom)

\* C6: a payload-size error at any attempt ends transcribe_segment at once:
\* the task is done in the same step, that call was its last, no sleep
\* followed it, and the result is the split signal with the task's own path
\* and time range, not a placeholder
C6_PayloadShortCircuit ==
    \A j \in Tasks :
        (\E k \in 1..Len(Outs(j)) : Outs(j)[k].class = "payload") =>
            /\ tpc[j] = "done"
            /\ LastOut(j).class = "payload"
            /\ \A k \in 1..(Len(Outs(j)) - 1) : Outs(j)[k].class # "payload"
            /\ log[j].calls = Len(Outs(j))
            /\ log[j].sleeps = log[j].calls - 1
            /\ base_results[j] =
                  SplitResult(IndexOf(j), segments[j], starts[j], ends[j])
            /\ "text" \notin DOMAIN base_results[j]

\* C6 witness: with one retry allowed, one task got the payload-size error at
\* its first attempt and another at its second, the last one
C6_Witness ==
    /\ max_segment_retries = 1
    /\ \E j1 \in Tasks, j2 \in Tasks :
          /\ tpc[j1] = "done" /\ tpc[j2] = "done"
          /\ Len(Outs(j1)) = 1 /\ LastOut(j1).class = "payload"
          /\ Len(Outs(j2)) = 2 /\ LastOut(j2).class = "payload"

\* C7: a remote call that ends without error and leaves no text is a
\* retryable failure: with attempts left the task goes on, without it the
\* task returns the placeholder with reason "empty transcription"
C7_EmptyIsRetryable ==
    \A j \in Tasks :
        (Outs(j) # <<>> /\ LastOut(j).class = "empty") =>
            IF Len(Outs(j)) < max_segment_retries + 1
            THEN /\ tpc[j] \in {"sleeping", "calling"}
                 /\ base_results[j] = NoResult
                 /\ log[j].sleeps = Len(Outs(j))
            ELSE /\ tpc[j] = "done"
                 /\ log[j].calls = max_segment_retries + 1
                 /\ base_results[j] = FailedWith(j, ReasonEmpty)

\* C7 witness: an error, then an empty transcription at the last attempt
C7_Witness ==
    \E j \in Tasks :
        /\ max_segment_retries = 1
        /\ tpc[j] = "done"
        /\ Len(Outs(j)) = 2
        /\ Outs(j)[1].class = "error"
        /\ Outs(j)[2].class = "empty"

\* a result is a text or a split signal, not both and not neither
ExactlyOneKind(r) == ("text" \in DOMAIN r) # GetSplitRequired(r)

\* C8: every result transcribe_segment returns, to a task or to the
\* splitter, is exactly one of a text and a split signal and carries the
\* start_s and end_s it was called with
C8_ResultShape ==
    /\ \A j \in Tasks :
          tpc[j] = "done" =>
              /\ ExactlyOneKind(base_results[j])
              /\ base_results[j].start_s = starts[j]
              /\ base_results[j].end_s = ends[j]
    /\ \A i \in InFlightSplits, out \in RemoteOutcomes :
          LET f == stack[i]
              step == SegmentAttempt(IntOf(f.start_s), f.path, f.start_s,
                                     f.end_s, 1, 0 + 1, NoError, out)
          IN  /\ step.returns
              /\ ExactlyOneKind(step.result)
              /\ step.result.start_s = f.start_s
              /\ step.result.end_s = f.end_s

\* C8 witness: three tasks returned a transcript, a placeholder and a split
\* signal
C8_Witness ==
    \E j1 \in Tasks, j2 \in Tasks, j3 \in Tasks :
        /\ tpc[j1] = "done" /\ tpc[j2] = "done" /\ tpc[j3] = "done"
        /\ LastOut(j1).class = "text"
        /\ LastOut(j2).class \in {"error", "empty"}
        /\ GetSplitRequired(base_results[j3])

\* C9: every top-level result that asks for a split goes to the splitter and
\* is replaced by the splitter's leaves; no leaf of the transcript is a split
\* signal and every leaf has a text
C9_SplitsRouted ==
    /\ \A i \in 1..Len(expanded) :
          "text" \in DOMAIN expanded[i] /\ ~GetSplitRequired(expanded[i])
    /\ \A j \in Tasks :
          (pc \in {"expand", "done"} /\ j < ri
             /\ GetSplitRequired(base_results[j])) =>
              /\ j \in routed
              /\ base_results[j] \notin Range(expanded)
              /\ \E ls \in RootLeaves(j) : Range(ls) \subseteq Range(expanded)

\* C9 witness: a run returned after the splitter replaced a split signal by
\* at least two leaves
C9_Witness ==
    /\ pc = "done"
    /\ \E j \in routed : \E ls \in RootLeaves(j) : Len(ls) >= 2

\* C10: a splitter call at depth >= max_split_depth on a file larger than
\* the cap returns exactly one leaf, the payload-too-large-after-splits
\* placeholder with the call's time range, in the step that reads the size:
\* it makes no remote call and no encoder call, and so raises nothing
C10_DepthExhausted ==
    \A v \in 1..Len(visits) :
        (visits[v].sized /\ visits[v].depth >= max_split_depth
           /\ visits[v].raw_size > PayloadSizeCap) =>
            /\ visits[v].returned
            /\ visits[v].calls = 0
            /\ visits[v].encs = <<>>
            /\ Len(visits[v].leaves) = 1
            /\ visits[v].leaves[1].text =
                  Placeholder(visits[v].start_s, visits[v].end_s, ReasonTooLarge)
            /\ visits[v].leaves[1].start_s = visits[v].start_s
            /\ visits[v].leaves[1].end_s = visits[v].end_s

\* C10 witness: the depth limit was reached two levels down on a file that
\* was still too large, and the run returned
C10_Witness ==
    /\ pc = "done"
    /\ \E v \in 1..Len(visits) :
          /\ visits[v].depth = 2
          /\ visits[v].depth >= max_split_depth
          /\ visits[v].raw_size > PayloadSizeCap

\* the splitter calls made on a half of the file of call v
Children(v) ==
    LET halves == {PartL(visits[v].path), PartR(visits[v].path)}
    IN  {w \in 1..Len(visits) :
            /\ visits[w].depth = visits[v].depth + 1
            /\ visits[w].root = visits[v].root
            /\ visits[w].path \in halves}

\* C11: a splitter call that finds its file at or below the cap makes
\* exactly one remote call, whatever max_segment_retries is, calls no encoder
\* and starts no child call; once that call has ended it has returned
\* exactly one leaf with the call's own time range, and when the call
\* signalled a payload-size error the leaf is the payload-error-persistent
\* placeholder and not a split signal
C11_BaseCaseOneCall ==
    \A v \in 1..Len(visits) :
        (visits[v].sized /\ visits[v].raw_size <= PayloadSizeCap) =>
            /\ visits[v].calls = 1
            /\ visits[v].encs = <<>>
            /\ Children(v) = {}
            /\ Len(visits[v].outs) <= 1
            /\ visits[v].returned = (Len(visits[v].outs) = 1)
            /\ visits[v].returned =>
                  /\ Len(visits[v].leaves) = 1
                  /\ ~GetSplitRequired(visits[v].leaves[1])
                  /\ "text" \in DOMAIN visits[v].leaves[1]
                  /\ visits[v].leaves[1].start_s = visits[v].start_s
                  /\ visits[v].leaves[1].end_s = visits[v].end_s
                  /\ visits[v].outs[1].class = "payload" =>
                        visits[v].leaves[1].text =
                            Placeholder(visits[v].start_s, visits[v].end_s,
                                        ReasonPersistent)

\* C11 witness: with one retry configured, one base-case call ended with an
\* error the top level would have retried and another with a payload-size
\* error, and the run returned
C11_Witness ==
    /\ pc = "done"
    /\ max_segment_retries = 1
    /\ \E v \in 1..Len(visits), w \in 1..Len(visits) :
          /\ visits[v].raw_size <= PayloadSizeCap
          /\ visits[v].returned
          /\ visits[v].outs # <<>> /\ visits[v].outs[1].class = "error"
          /\ visits[w].raw_size <= PayloadSizeCap
          /\ visits[w].returned
          /\ visits[w].outs # <<>> /\ visits[w].outs[1].class = "payload"

\* the splitter calls made for top-level task j
Tree(j) == {v \in 1..Len(visits) : visits[v].root = j}

\* every file the splitter looked at for task j was above the cap
AllAboveCap(j) ==
    \A v \in Tree(j) : visits[v].sized => visits[v].raw_size > PayloadSizeCap

\* the root splitter call of task j has returned
Resolved(j) == RootLeaves(j) # {}

\* in every state: no splitter call is deeper than max_split_depth, a split
\* tree has at most 2^(max_split_depth + 1) - 1 calls, and a returned tree
\* whose files were all above the cap consists of 2^max_split_depth leaves,
\* each the payload-too-large-after-splits placeholder of a call at depth
\* max_split_depth that made no remote call
DepthBounded ==
    /\ \A v \in 1..Len(visits) : visits[v].depth <= max_split_depth
    /\ \A i \in 1..Len(stack) : stack[i].depth <= max_split_depth
    /\ \A j \in routed :
          /\ Cardinality(Tree(j)) <= 2 ^ (max_split_depth + 1) - 1
          /\ (Resolved(j) /\ AllAboveCap(j)) =>
                \A ls \in RootLeaves(j) :
                    /\ Len(ls) = 2 ^ max_split_depth
                    /\ \A i \in 1..Len(ls) :
                          \E w \in Tree(j) :
                              /\ visits[w].depth = max_split_depth
                              /\ visits[w].calls = 0
                              /\ visits[w].leaves = <<ls[i]>>
                              /\ ls[i].text =
                                    Placeholder(visits[w].start_s,
                                                visits[w].end_s, ReasonTooLarge)

\* C12: splitting stops at the depth bound.  No splitter call has a depth
\* above max_split_depth, and a segment whose files are above the cap at
\* every level resolves to payload-too-large-after-splits placeholders made
\* at depth max_split_depth; and it does resolve: once a segment is passed to
\* the splitter, its tree returns, unless a file at or below the cap is met
\* or the encoder raises
C12_SplitTerminates ==
    /\ []DepthBounded
    /\ \A j \in 1..MaxSeg :
          (j \in routed) ~>
              (Resolved(j) \/ ~AllAboveCap(j) \/ pc = "raised")

\* C12 witness: with max_split_depth = 1 a segment whose file and halves
\* were all above the cap resolved to two placeholders made at depth 1
C12_Witness ==
    /\ max_split_depth = 1
    /\ \E j \in routed :
          /\ Resolved(j)
          /\ AllAboveCap(j)
          /\ Cardinality(Tree(j)) = 3
          /\ \A ls \in RootLeaves(j) :
                /\ Len(ls) = 2
                /\ \A i \in 1..2 :
                      ls[i].text = Placeholder(ls[i].start_s, ls[i].end_s,
                                               ReasonTooLarge)

\* a text in the format of the failure placeholders
IsPlaceholderText(text) == text # <<>> /\ text[1] = "[Transcription failed - "

\* the splitter call made for task j on the file path, when there is one
VisitOf(j, path) == {v \in Tree(j) : visits[v].path = path}

\* a base-case call that found its file within the cap and got a transcript
TranscribedHalf(v) ==
    /\ visits[v].sized
    /\ visits[v].raw_size <= PayloadSizeCap
    /\ visits[v].outs # <<>>
    /\ visits[v].outs[1].class = "text"

\* task j asked for a split, its file was above the cap, and both halves
\* were within the cap and were transcribed
SplitSucceeded(j) ==
    /\ j \in routed
    /\ Cardinality(Tree(j)) = 3
    /\ \E r \in VisitOf(j, segments[j]) :
          visits[r].sized /\ visits[r].raw_size > PayloadSizeCap
    /\ \E l \in VisitOf(j, PartL(segments[j])) : TranscribedHalf(l)
    /\ \E r \in VisitOf(j, PartR(segments[j])) : TranscribedHalf(r)

\* C13: in the returned transcript a segment whose split succeeded as above
\* has exactly two leaves, the leaf of the left half before the leaf of the
\* right half, each with the time range of its half, and neither is a
\* failure placeholder
C13_SuccessfulSplit ==
    pc = "done" =>
        \A j \in Tasks :
            SplitSucceeded(j) =>
                \E l \in VisitOf(j, PartL(segments[j])),
                   r \in VisitOf(j, PartR(segments[j])) :
                    /\ RootLeaves(j) = {visits[l].leaves \o visits[r].leaves}
                    /\ Len(visits[l].leaves) = 1
                    /\ Len(visits[r].leaves) = 1
                    /\ ~IsPlaceholderText(visits[l].leaves[1].text)
                    /\ ~IsPlaceholderText(visits[r].leaves[1].text)
                    /\ visits[l].leaves[1].text # <<>>
                    /\ visits[r].leaves[1].text # <<>>
                    /\ Cardinality({i \in 1..Len(expanded) :
                           starts[j] <= expanded[i].start_s
                             /\ expanded[i].start_s < ends[j]}) = 2
                    /\ \E i \in 1..Len(expanded), k \in 1..Len(expanded) :
                          /\ i < k
                          /\ expanded[i] = visits[l].leaves[1]
                          /\ expanded[k] = visits[r].leaves[1]
                          /\ expanded[i].start_s = starts[j]
                          /\ expanded[i].end_s = expanded[k].start_s
                          /\ expanded[k].end_s = ends[j]

\* C13 witness: the second of two segments was split with success and the
\* run returned
C13_Witness ==
    /\ pc = "done"
    /\ Len(segments) = 2
    /\ SplitSucceeded(2)

\* the format of section 4.1: a placeholder for the range of call v
IsPlaceholderFor(leaf, v) ==
    /\ "text" \in DOMAIN leaf
    /\ IsPlaceholderText(leaf.text)
    /\ leaf.start_s = visits[v].start_s
    /\ leaf.end_s = visits[v].end_s

\* C14: an encoder failure aborts only its branch: after a splitter call's
\* encoder call failed the run has not raised, the call resolves to one
\* placeholder leaf for its range, and a run that returned holds a leaf for
\* every segment
C14_EncoderFailureContained ==
    \A v \in 1..Len(visits) :
        visits[v].enc_failed =>
            /\ pc # "raised"
            /\ visits[v].returned =>
                  /\ Len(visits[v].leaves) = 1
                  /\ IsPlaceholderFor(visits[v].leaves[1], v)
            /\ pc = "done" => \A j \in Tasks : Covered(j)

\* os.listdir(work_dir) holds no name the segment pattern matches
NoSegmentFiles == {f \in work_dir : SegNameMatch(f)} = {}

\* C15: with no segment file in work_dir, transcribe_file returns in its
\* first step the empty transcript and the empty segment list, unless
\* splitter_fn raised before the directory was listed; no task was created
\* and so no remote call was made and the gate was not acquired, no
\* recursive splitter call was made and _probe_duration was called on no file
C15_NoSegmentsNoWork ==
    (NoSegmentFiles /\ pc # "start") =>
        /\ pc = "done" \/ (pc = "raised" /\ ~bypass_split)
        /\ full_text = <<>>
        /\ out_segments = <<>>
        /\ tpc = <<>>
        /\ log = <<>>
        /\ visits = <<>>
        /\ probe_log = <<>>
        /\ sem = 0

\* C15 witness: a run over a work_dir that holds only the source recording
\* has returned
C15_Witness ==
    /\ NoSegmentFiles
    /\ work_dir = {SourcePath}
    /\ pc = "done"

\* the duration the claim gives segment j: the probed one, or seg_seconds
\* when the probe returned 0
ClaimedDuration(j) ==
    IF probed[segments[j]] = 0 THEN SegSeconds * TicksPerSec
    ELSE probed[segments[j]]

\* the text of a placeholder up to its reason, for the range [s, e)
PlaceholderPrefix(s, e) ==
    <<"[Transcription failed - ">> \o format_ts(s) \o <<" - ">>
        \o format_ts(e) \o <<" Reason: ">>

\* text begins with prefix
StartsWith(text, prefix) ==
    Len(text) >= Len(prefix) /\ SubSeq(text, 1, Len(prefix)) = prefix

\* the files the encoder was asked to write so far
EncoderTargets ==
    UNION {{visits[v].encs[k].dst : k \in 1..Len(visits[v].encs)} :
              v \in 1..Len(visits)}

\* once transcribe_file is past its preparation: segments holds, in name
\* order, the segment files the directory held when it was listed (every
\* one of them is still there, and a segment file that was not listed is a
\* half the encoder wrote since), the ranges are the cumulative sums of the
\* durations, and every result a task returned, a placeholder included,
\* reports the range of its segment
RangesAreCumulative ==
    (pc # "start" /\ segments # <<>>) =>
        /\ Range(segments) = {f \in listed : SegNameMatch(f)}
        /\ listed \subseteq work_dir
        /\ work_dir \ listed \subseteq EncoderTargets
        /\ \A i \in Tasks, k \in Tasks : i < k => NameLess(segments[i], segments[k])
        /\ Len(starts) = Len(segments)
        /\ Len(ends) = Len(segments)
        /\ starts[1] = 0
        /\ \A j \in Tasks : ends[j] = starts[j] + ClaimedDuration(j)
        /\ \A j \in Tasks : j < Len(segments) => starts[j + 1] = ends[j]
        /\ \A j \in Tasks :
              tpc[j] = "done" =>
                  /\ base_results[j].start_s = starts[j]
                  /\ base_results[j].end_s = ends[j]
                  /\ ("text" \in DOMAIN base_results[j]
                        /\ LastOut(j).class # "text") =>
                        StartsWith(base_results[j].text,
                                   PlaceholderPrefix(starts[j], ends[j]))

\* C16: the top-level ranges are the cumulative sums of the durations
\* (probed, or seg_seconds when the probe returns 0) of the segments sorted
\* by name, every top-level result reports exactly the range of its segment,
\* and the ranges are fixed by the preparation: no later step, in whatever
\* order the tasks run, changes them
C16_RangesFixedBeforeDispatch ==
    /\ []RangesAreCumulative
    /\ [][pc # "start" => UNCHANGED <<segments, starts, ends>>]_vars

\* C16 witness: of two failing segments the second completed while the call
\* of the first was still in flight; the probe of the first failed, and the
\* second's placeholder is for the range that starts at seg_seconds
C16_Witness ==
    /\ Len(segments) = 2
    /\ probed[segments[1]] = 0
    /\ tpc[1] = "calling"
    /\ tpc[2] = "done"
    /\ base_results[2] = FailedWith(2, MsgBoom)
    /\ starts[2] = SegSeconds * TicksPerSec
    /\ ends[2] > starts[2]

\* C17: every leaf the splitter returns for top-level task j carries the
\* index of task j
C17_LeavesCarryOuterIndex ==
    \A v \in 1..Len(visits) :
        visits[v].returned =>
            \A i \in 1..Len(visits[v].leaves) :
                visits[v].leaves[i].index = IndexOf(visits[v].root)

\* C18: every job has end_s > start_s: the top-level ranges, and the range
\* of every splitter call at every depth
C18_RangesNonEmpty ==
    /\ \A j \in 1..Len(starts) : ends[j] > starts[j]
    /\ \A v \in 1..Len(visits) : visits[v].end_s > visits[v].start_s

\* the leaves of the returned list that are not failure placeholders
RealLeaves == {i \in 1..Len(expanded) : ~IsPlaceholderText(GetText(expanded[i]))}

\* the ranges of two leaves share no instant
Disjoint(r1, r2) == r1.end_s <= r2.start_s \/ r2.end_s <= r1.start_s

\* the end of the original timeline: the sum of the top-level durations
TimelineEnd == IF ends = <<>> THEN 0 ELSE ends[Len(ends)]

\* C19: in the returned list the ranges of the leaves that are not
\* placeholders are pairwise disjoint and lie inside [0, sum of the
\* top-level durations)
C19_RealLeavesDisjoint ==
    pc = "done" =>
        /\ \A i \in RealLeaves, k \in RealLeaves :
              i # k => Disjoint(expanded[i], expanded[k])
        /\ \A i \in RealLeaves :
              /\ 0 <= expanded[i].start_s
              /\ expanded[i].start_s <= expanded[i].end_s
              /\ expanded[i].end_s <= TimelineEnd

\* tasks that have not yet entered "async with sem"
PendingTasks == {j \in Tasks : tpc[j] = "waiting"}

\* C20: the gate counts: its value is max_concurrency less the number of
\* tasks that hold it, and whenever fewer than max_concurrency tasks hold it
\* and a task is pending, a pending task (the first in line) can start at
\* once, whatever the tasks that hold it are doing
C20_CountingGate ==
    pc = "gather" =>
        /\ sem = max_concurrency - Cardinality(InFlightTasks)
        /\ (Cardinality(InFlightTasks) < max_concurrency /\ PendingTasks # {}) =>
              \E j \in PendingTasks : ENABLED TaskStart(j)

\* C20 witness: with max_concurrency = 2, one task has finished, one still
\* holds the gate and a third is pending and can start
C20_Witness ==
    /\ pc = "gather"
    /\ max_concurrency = 2
    /\ \E j \in Tasks : tpc[j] = "done"
    /\ Cardinality(InFlightTasks) = 1
    /\ \E j \in PendingTasks : ENABLED TaskStart(j)

\* the permits of the gate that are taken
HeldSlots == max_concurrency - sem

\* C21: the gate leaks no permit: once the semaphore exists the number of
\* permits taken is the number of tasks inside transcribe_segment, whatever
\* the tasks that left returned (a transcript, a split signal, a placeholder
\* after the retries), and it is zero once every task has returned and for
\* the rest of the run
C21_GateNeverLeaks ==
    (pc # "start" /\ segments # <<>>) =>
        /\ HeldSlots = Cardinality(InFlightTasks)
        /\ sem >= 0
        /\ AllTasksDone => HeldSlots = 0
        /\ pc \in {"expand", "done", "raised"} => HeldSlots = 0

\* C21 witness: the gather is over after three tasks left the gate on the
\* three paths: a transcript, a split signal, and a placeholder after the
\* attempts were exhausted
C21_Witness ==
    /\ pc = "expand"
    /\ max_concurrency >= 1
    /\ sem = max_concurrency
    /\ \E j \in Tasks : LastOut(j).class = "text"
    /\ \E j \in Tasks : GetSplitRequired(base_results[j])
    /\ \E j \in Tasks : LastOut(j).class \in {"error", "empty"}

\* the whole name of f is seg + three digits + ".mp3"
WholeNameIsSegment(f) == f.stem = "seg" /\ f.num \in 0..999 /\ f.parts = <<>>

\* C22: the listed top-level segments are exactly the files of work_dir whose
\* whole name is seg###.mp3, in name order; a half-file left by the splitter
\* of an earlier run is not among them
C22_OnlyWholeNameSegments ==
    pc # "start" =>
        /\ \A j \in Tasks : WholeNameIsSegment(segments[j])
        /\ segments = SortNames({f \in work_dir : WholeNameIsSegment(f)})

\* the leaves the root splitter call of task j returned
TheRootLeaves(j) == CHOOSE ls \in RootLeaves(j) : TRUE

\* what task j contributes: its own result, or the splitter's leaves
Contribution(j) ==
    IF GetSplitRequired(base_results[j]) THEN TheRootLeaves(j)
    ELSE <<base_results[j]>>

RECURSIVE Emitted(_)
\* the leaves of the first k tasks in the order of emission
Emitted(k) == IF k = 0 THEN <<>> ELSE Emitted(k - 1) \o Contribution(k)

RECURSIVE SplitLeaves(_)
\* the number of leaves the splitter returned for the split tasks among the
\* first k
SplitLeaves(k) ==
    IF k = 0 THEN 0
    ELSE SplitLeaves(k - 1)
           + (IF GetSplitRequired(base_results[k]) THEN Len(TheRootLeaves(k))
              ELSE 0)

\* how often x occurs in the sequence rs
Count(rs, x) == Cardinality({i \in 1..Len(rs) : rs[i] = x})

\* the number of separators "\n\n" in a joined text
Separators(text) == Cardinality({i \in 1..Len(text) : text[i] = "\n\n"})

\* C23: the returned transcript is the leaf texts joined by "\n\n" and holds
\* every leaf exactly once: the returned list has one entry per task that
\* was not split plus the leaves the splitter returned for each split task,
\* it is a permutation of the emitted leaves, and the transcript joins as
\* many texts as there are leaves
C23_EveryLeafOnce ==
    pc = "done" =>
        /\ Len(expanded) =
              Cardinality({j \in Tasks : ~GetSplitRequired(base_results[j])})
                + SplitLeaves(Len(segments))
        /\ \A j \in Tasks :
              GetSplitRequired(base_results[j]) =>
                  /\ RootLeaves(j) # {}
                  /\ Len(Contribution(j)) >= 1
        /\ LET emitted == Emitted(Len(segments))
           IN  \A x \in Range(expanded) \cup Range(emitted) :
                   Count(expanded, x) = Count(emitted, x)
        /\ full_text = JoinTexts(expanded)
        /\ expanded # <<>> => Separators(full_text) = Len(expanded) - 1
        /\ \A i \in 1..Len(expanded) : GetText(expanded[i]) # <<>>

\* C23 witness: a run returned a task's own result and, for a split task,
\* more than one leaf of the splitter
C23_Witness ==
    /\ pc = "done"
    /\ \E j \in Tasks : ~GetSplitRequired(base_results[j])
    /\ \E j \in Tasks :
          GetSplitRequired(base_results[j]) /\ Len(TheRootLeaves(j)) >= 2
    /\ Len(expanded) >= 3

\* the child call of v made on the file path
ChildOn(v, path) == {w \in Children(v) : visits[w].path = path}

\* the calls in the subtree of v
Subtree(v) ==
    {w \in Tree(visits[v].root) :
        /\ Len(visits[w].path.parts) >= Len(visits[v].path.parts)
        /\ SubSeq(visits[w].path.parts, 1, Len(visits[v].path.parts))
              = visits[v].path.parts
        /\ visits[w].depth >= visits[v].depth}

\* the half used at call v, read off the range of its left child
HalfAt(v) ==
    LET l == CHOOSE w \in ChildOn(v, PartL(visits[v].path)) : TRUE
    IN  visits[l].end_s - visits[l].start_s

\* at every bisecting call of the subtree of v the half is not negative
HalvesNonNegative(v) ==
    \A w \in Subtree(v) :
        ChildOn(w, PartL(visits[w].path)) # {} => HalfAt(w) >= 0

\* a returned bisecting call returns the leaves of its left child followed
\* by the leaves of its right child
LeftThenRight(v) ==
    (visits[v].returned /\ visits[v].encs # <<>>) =>
        \E l \in ChildOn(v, PartL(visits[v].path)),
           r \in ChildOn(v, PartR(visits[v].path)) :
            visits[v].leaves = visits[l].leaves \o visits[r].leaves

\* in every state every returned bisecting call satisfies LeftThenRight
SplitterLeftToRight == \A v \in 1..Len(visits) : LeftThenRight(v)

\* C24: the list a splitter call returns is in left-to-right order, and its
\* start_s values are non-decreasing whenever no half in its subtree is
\* negative
C24_SplitterOrderChronological ==
    \A v \in 1..Len(visits) :
        /\ LeftThenRight(v)
        /\ (visits[v].returned /\ HalvesNonNegative(v)) =>
              IsSortedByStart(visits[v].leaves)

\* the file a half-file <path>_partL.mp3 or <path>_partR.mp3 was cut from
SourceOf(half) == [half EXCEPT !.parts = SubSeq(@, 1, Len(@) - 1)]

\* the call that made call w: an earlier call for the same task on the file
\* that w's file is a half of
Caller(w) ==
    LET src == SourceOf(visits[w].path)
    IN  {v \in 1..(w - 1) :
            visits[v].root = visits[w].root /\ visits[v].path = src}

\* C25: a bisecting call at depth d with range [start, end) makes its two
\* child calls at depth d + 1, the left one on <path>_partL.mp3 with range
\* [start, start + half) and the right one on <path>_partR.mp3 with range
\* [start + half, end): left.start = start, left.end = right.start and
\* right.end = end, and half is half of the duration the encoder calls used
C25_ChildrenPartitionParent ==
    /\ \A w \in 1..Len(visits) :
          visits[w].depth > 0 =>
              \E v \in Caller(w) :
                  /\ visits[w].depth = visits[v].depth + 1
                  /\ Len(visits[v].encs) = 2
                  /\ IF visits[w].path = PartL(visits[v].path)
                     THEN visits[w].start_s = visits[v].start_s
                     ELSE /\ visits[w].end_s = visits[v].end_s
                          /\ \E l \in 1..(w - 1) :
                                /\ v \in Caller(l)
                                /\ visits[l].path = PartL(visits[v].path)
                                /\ visits[l].returned
                                /\ visits[l].end_s = visits[w].start_s
    /\ \A i \in 1..Len(stack) :
          stack[i].pc \in {"awaitL", "awaitR"} =>
              /\ 2 * stack[i].half = stack[i].dur
              /\ \E l \in ChildOn(stack[i].vid, PartL(stack[i].path)) :
                    visits[l].end_s = stack[i].start_s + stack[i].half
              /\ stack[i].pc = "awaitR" =>
                    \E r \in ChildOn(stack[i].vid, PartR(stack[i].path)) :
                        visits[r].start_s = stack[i].start_s + stack[i].half
    /\ \A v \in 1..Len(visits) :
          visits[v].returned /\ visits[v].encs # <<>> =>
              /\ Cardinality(Children(v)) = 2
              /\ ChildOn(v, PartL(visits[v].path)) # {}
              /\ ChildOn(v, PartR(visits[v].path)) # {}

\* C25 witness: a call at depth 1 bisected its range with a half that did
\* not come from the range, and both children have returned
C25_Witness ==
    \E v \in 1..Len(visits) :
        /\ visits[v].depth = 1
        /\ visits[v].returned
        /\ Cardinality(Children(v)) = 2
        /\ 2 * HalfAt(v) # visits[v].end_s - visits[v].start_s

(* ------------- C26: the duration bisected and the two slices ------------- *)

\* the duration the bisection is to use for a file probed as probe that
\* stands for [start_s, end_s): the probe when nonzero, else the length of
\* the range when nonzero, else one second
BisectedDuration(probe, start_s, end_s) ==
    CASE probe # 0 -> probe
      [] probe = 0 /\ end_s # start_s -> end_s - start_s
      [] OTHER -> TicksPerSec

\* offsets a range may start or end at: the start of the audio, one second
\* in, and the end of a first segment of the nominal length
RangeOffsets == {0, TicksPerSec, SegSeconds * TicksPerSec}

\* the bisecting calls made so far
Bisections == {v \in 1..Len(visits) : visits[v].encs # <<>>}

\* the two slices of a bisection of a file of duration d: [0, half) and
\* [half, d) of the file itself, with half = d / 2
SlicesCover(v, d) ==
    LET encs == visits[v].encs
        half == d \div 2
    IN  /\ 2 * half = d
        /\ encs[1] = EncodeCall(visits[v].path, PartL(visits[v].path), 0, half)
        /\ Len(encs) <= 2
        /\ Len(encs) = 2 =>
              /\ encs[2].src = visits[v].path
              /\ encs[2].dst = PartR(visits[v].path)
              /\ encs[2].start = half
              /\ encs[2].start + encs[2].dur = d

\* the splitter's duration follows the rule for every probe and range
DurationRule ==
    \A probe \in AllProbes, start_s \in RangeOffsets, end_s \in RangeOffsets :
        /\ SplitDuration(probe, start_s, end_s)
              = BisectedDuration(probe, start_s, end_s)
        /\ SplitDuration(probe, start_s, end_s) # 0

\* C26: the duration that is bisected is the probed duration when that is
\* nonzero, otherwise end_s - start_s when that is nonzero, otherwise one
\* second, and it is never zero; the two encoder calls of a bisection cover
\* [0, half) and [half, duration) of the file with half = duration / 2
C26_BisectedDuration ==
    /\ DurationRule
    /\ \A v \in Bisections :
          LET d == BisectedDuration(visits[v].probe, visits[v].start_s,
                                    visits[v].end_s)
          IN  d # 0 /\ SlicesCover(v, d)

\* one bisection went by a probed duration that differs from the length of
\* its range and another by a failed probe, and both made their two slices
C26_Witness ==
    \E v \in Bisections, w \in Bisections :
        /\ visits[v].probe # 0
        /\ visits[v].probe # visits[v].end_s - visits[v].start_s
        /\ Len(visits[v].encs) = 2
        /\ visits[w].probe = 0
        /\ Len(visits[w].encs) = 2

(* ------------------ C27: the destinations of the encoder ------------------ *)

\* the encoder calls of the run, as pairs <<call of the splitter, position>>
EncoderCalls ==
    {c \in (1..Len(visits)) \X (1..2) : c[2] <= Len(visits[c[1]].encs)}

\* the path encoder call c writes
Destination(c) == visits[c[1]].encs[c[2]].dst

\* C27: within one run no two encoder calls write the same destination path,
\* and no encoder call writes the path of a top-level segment file
C27_DestinationsUnique ==
    /\ \A c \in EncoderCalls, d \in EncoderCalls :
          c # d => Destination(c) # Destination(d)
    /\ \A c \in EncoderCalls : Destination(c) \notin Range(segments)

(* ------------------------- C28: linear backoff -------------------------- *)

RECURSIVE SumSeq(_)
\* the sum of a sequence of numbers
SumSeq(s) == IF s = <<>> THEN 0 ELSE s[1] + SumSeq(Tail(s))

\* the attempts of task j that failed with a retryable failure and were not
\* the last attempt allowed
RetriedAttempts(j) ==
    {k \in 1..Len(Outs(j)) : /\ Outs(j)[k].class \in {"error", "empty"}
                             /\ k <= max_segment_retries}

\* task j has used every attempt and the last one failed
Exhausted(j) ==
    /\ tpc[j] = "done"
    /\ Len(Outs(j)) = max_segment_retries + 1
    /\ LastOut(j).class \in {"error", "empty"}

\* C28: a task sleeps k seconds after its failed attempt k and before attempt
\* k + 1; it does not sleep after the last attempt, after a success or after
\* a payload-size error, so a task that exhausts its attempts has slept
\* max_segment_retries times, 1 + 2 + ... + max_segment_retries seconds
C28_LinearBackoff ==
    \A j \in Tasks :
        /\ Len(log[j].slept) = Cardinality(RetriedAttempts(j))
        /\ \A k \in 1..Len(log[j].slept) :
              /\ log[j].slept[k] = k
              /\ Outs(j)[k].class \in {"error", "empty"}
        /\ tpc[j] = "sleeping" =>
              log[j].calls = Len(log[j].slept) /\ attempt[j] = Len(log[j].slept)
        /\ tpc[j] \in {"calling", "done"} =>
              log[j].calls = Len(log[j].slept) + 1
        /\ Exhausted(j) =>
              /\ Len(log[j].slept) = max_segment_retries
              /\ 2 * SumSeq(log[j].slept)
                    = max_segment_retries * (max_segment_retries + 1)

\* C28 witness: with two retries allowed a task has failed three times; it
\* slept one second and then two
C28_Witness ==
    \E j \in Tasks :
        /\ max_segment_retries = 2
        /\ Exhausted(j)
        /\ log[j].slept = <<1, 2>>

(* ---------------------- C29: retries, then success ---------------------- *)

\* text holds the tokens of part, in a row
Contains(text, part) ==
    \E i \in 0..(Len(text) - Len(part)) :
        SubSeq(text, i + 1, i + Len(part)) = part

\* the error texts a task met: the exceptions' texts and the text the code
\* notes for an empty transcription
ErrorsMet(j) ==
    {Outs(j)[i].msg : i \in {k \in 1..Len(Outs(j)) : Outs(j)[k].class = "error"}}
    \cup {ReasonEmpty : i \in {k \in 1..Len(Outs(j)) : Outs(j)[k].class = "empty"}}

\* C29: a retryable failure leads to a new attempt at most max_segment_retries
\* times, and a success ends the loop: when attempt k is the first to yield
\* a non-empty text, the attempts before it having failed with other errors
\* or empty text, k <= max_segment_retries + 1, the task has made exactly k
\* remote calls and returned that text as a result that is no placeholder,
\* and none of the errors met before is part of it
C29_RetryThenSuccess ==
    \A j \in Tasks :
        /\ log[j].sleeps <= max_segment_retries
        /\ log[j].calls <= max_segment_retries + 1
        /\ (Outs(j) # <<>> /\ LastOut(j).class = "text") =>
              LET k == Len(Outs(j))
              IN  /\ \A i \in 1..(k - 1) : Outs(j)[i].class \in {"error", "empty"}
                  /\ k <= max_segment_retries + 1
                  /\ tpc[j] = "done"
                  /\ log[j].calls = k
                  /\ log[j].sleeps = k - 1
                  /\ base_results[j] = TextResult(IndexOf(j), LastOut(j).text,
                                                  starts[j], ends[j])
                  /\ LastOut(j).text # <<>>
                  /\ ~IsPlaceholderText(base_results[j].text)
                  /\ \A m \in ErrorsMet(j) :
                        m # <<>> => ~Contains(base_results[j].text, m)

\* C29 witness: with two retries allowed a task met an exception with a
\* text, then an empty transcription, and got a text at its third attempt
C29_Witness ==
    \E j \in Tasks :
        /\ max_segment_retries = 2
        /\ Len(Outs(j)) = 3
        /\ Outs(j)[1].class = "error" /\ Outs(j)[1].msg = MsgBoom
        /\ Outs(j)[2].class = "empty"
        /\ Outs(j)[3].class = "text"
        /\ tpc[j] = "done"

(* -------------------- C30: ties keep emission order --------------------- *)

\* the entries of rs whose start_s is s, in the order they have in rs
WithStart(rs, s) ==
    LET StartsAt(r) == GetStart(r) = s
    IN  SelectSeq(rs, StartsAt)

\* the start_s values of the entries of rs
StartsOf(rs) == {GetStart(rs[i]) : i \in 1..Len(rs)}

\* two leaves were emitted with the same start_s, the first not being the
\* second, and a leaf emitted after the first of them starts before it
TieEmitted(em) ==
    \E i \in 1..Len(em), k \in 1..Len(em), m \in 1..Len(em) :
        /\ i < k
        /\ GetStart(em[i]) = GetStart(em[k])
        /\ em[i] # em[k]
        /\ i < m
        /\ GetStart(em[m]) < GetStart(em[i])

\* C30: leaves with equal start_s keep their order of emission (earlier
\* top-level segment first, left before right within a split) in the
\* returned transcript: the final sort by start_s is stable
C30_TiesKeepEmissionOrder ==
    pc = "done" =>
        LET emitted == Emitted(Len(segments))
        IN  \A s \in StartsOf(expanded) \cup StartsOf(emitted) :
                WithStart(expanded, s) = WithStart(emitted, s)

\* C30 witness: a run returned two different leaves with the same start_s,
\* and the sort had to move a leaf emitted later in front of them
C30_Witness ==
    /\ pc = "done"
    /\ TieEmitted(Emitted(Len(segments)))

(* ---------------------- C31: placeholder timestamps --------------------- *)

\* the number a digit character stands for
DigitValue(c) == (CHOOSE i \in 1..10 : DigitTok[i] = c) - 1

\* the number the two characters of ts at positions i and i + 1 stand for
TwoDigits(ts, i) == 10 * DigitValue(ts[i]) + DigitValue(ts[i + 1])

\* ts is 'HH:MM:SS' with two digits per field, MM < 60 and SS < 60, and
\* stands for t seconds
IsClockOf(ts, t) ==
    /\ Len(ts) = 8
    /\ \A i \in {1, 2, 4, 5, 7, 8} : ts[i] \in DigitSet
    /\ ts[3] = ":" /\ ts[6] = ":"
    /\ TwoDigits(ts, 4) < 60
    /\ TwoDigits(ts, 7) < 60
    /\ TwoDigits(ts, 1) * 3600 + TwoDigits(ts, 4) * 60 + TwoDigits(ts, 7) = t

\* _format_ts(t) is the clock of t for every whole number of seconds t with
\* 0 <= t < 360000
ClockRule == \A t \in 0..359999 : IsClockOf(format_ts(t * TicksPerSec), t)

\* the placeholder results of the top-level tasks
TaskPlaceholders ==
    {j \in Tasks : /\ tpc[j] = "done"
                   /\ "text" \in DOMAIN base_results[j]
                   /\ IsPlaceholderText(base_results[j].text)}

\* the splitter calls that returned a placeholder of their own
SplitterPlaceholders ==
    {v \in 1..Len(visits) : /\ visits[v].returned
                            /\ visits[v].encs = <<>>
                            /\ Len(visits[v].leaves) = 1
                            /\ IsPlaceholderText(visits[v].leaves[1].text)}

\* C31: for every whole number of seconds t with 0 <= t < 360000,
\* _format_ts(t) is 'HH:MM:SS' with two digits per field, MM < 60, SS < 60
\* and HH * 3600 + MM * 60 + SS = t; every placeholder of a top-level task
\* or of the splitter begins with _format_ts of the start and of the end of
\* its own range
C31_PlaceholderTimestamps ==
    /\ ClockRule
    /\ \A j \in TaskPlaceholders :
          StartsWith(base_results[j].text,
                     PlaceholderPrefix(starts[j], ends[j]))
    /\ \A v \in SplitterPlaceholders :
          StartsWith(visits[v].leaves[1].text,
                     PlaceholderPrefix(visits[v].start_s, visits[v].end_s))

\* C31 witness: a run returned a placeholder of a task and a placeholder of
\* the splitter, both for ranges that do not start at 0
C31_Witness ==
    /\ pc = "done"
    /\ \E j \in TaskPlaceholders : starts[j] > 0
    /\ \E v \in SplitterPlaceholders :
          visits[v].start_s > 0 /\ visits[v].end_s # visits[v].start_s

(* ------------------- C32: the text of a successful call ------------------ *)

\* longest text the cleaning is checked on
MaxTextLen == 3

\* the invisible characters the cleaning is to remove: U+061C,
\* U+200B..U+200F, U+202A..U+202E, U+2066..U+2069 and U+FEFF
ListedInvisible ==
    {"U+061C"}
    \cup {"U+200B", "U+200C", "U+200D", "U+200E", "U+200F"}
    \cup {"U+202A", "U+202B", "U+202C", "U+202D", "U+202E"}
    \cup {"U+2066", "U+2067", "U+2068", "U+2069"}
    \cup {"U+FEFF"}

\* the texts the cleaning is checked on: up to MaxTextLen characters, each a
\* letter, a space or a listed invisible character
CleanSamples ==
    UNION {[1..n -> {"a", " "} \cup ListedInvisible] : n \in 0..MaxTextLen}

RECURSIVE WithoutListed(_)
\* text with every listed invisible character left out, the rest in order
WithoutListed(text) ==
    IF text = <<>> THEN <<>>
    ELSE IF Head(text) \in ListedInvisible THEN WithoutListed(Tail(text))
    ELSE <<Head(text)>> \o WithoutListed(Tail(text))

\* cleaning removes every listed invisible character, keeps the others in
\* order, and changes nothing in a cleaned text
CleaningRule ==
    \A text \in CleanSamples :
        LET cleaned == clean_some_unicode_from_text(text)
        IN  /\ cleaned = WithoutListed(text)
            /\ Range(cleaned) \cap ListedInvisible = {}
            /\ clean_some_unicode_from_text(cleaned) = cleaned

\* the chunks in arrival order, each cleaned, joined with newlines
CleanedJoin(chunks) ==
    Join(<<"\n">>, [i \in 1..Len(chunks) |-> WithoutListed(chunks[i])])

\* the results of remote calls that yielded a text, each with the chunks the
\* call streamed: those of the top-level tasks and those of the splitter
TextResults ==
    {[text |-> base_results[j].text, chunks |-> LastOut(j).chunks] :
        j \in {k \in Tasks : /\ tpc[k] = "done"
                             /\ Outs(k) # <<>>
                             /\ LastOut(k).class = "text"}}
    \cup {[text |-> visits[v].leaves[1].text, chunks |-> visits[v].outs[1].chunks] :
            v \in {w \in 1..Len(visits) : /\ visits[w].returned
                                          /\ visits[w].outs # <<>>
                                          /\ visits[w].outs[1].class = "text"}}

\* C32 as claimed: the text of a successful result is the chunks in arrival
\* order, each cleaned, joined with newlines, and cleaning removes every
\* listed invisible character, keeps the others in order and is idempotent
C32_TextIsCleanedJoin ==
    /\ CleaningRule
    /\ \A r \in TextResults : r.text = CleanedJoin(r.chunks)

\* C32 amended: as claimed, except that the joined text is returned with the
\* whitespace at its two ends removed
C32_TextIsStrippedCleanedJoin ==
    /\ CleaningRule
    /\ \A r \in TextResults : r.text = Strip(CleanedJoin(r.chunks))

\* C32 witness: a task and a splitter call returned a text whose chunks held
\* invisible characters, among them a chunk of nothing else, and whose join
\* began or ended with whitespace
C32_Witness ==
    /\ \E j \in Tasks :
          /\ tpc[j] = "done" /\ Outs(j) # <<>> /\ LastOut(j).class = "text"
          /\ \E i \in 1..Len(LastOut(j).chunks) :
                /\ LastOut(j).chunks[i] # <<>>
                /\ WithoutListed(LastOut(j).chunks[i]) = <<>>
          /\ base_results[j].text # CleanedJoin(LastOut(j).chunks)
    /\ \E v \in 1..Len(visits) :
          /\ visits[v].returned /\ visits[v].outs # <<>>
          /\ visits[v].outs[1].class = "text"
          /\ visits[v].leaves[1].text # CleanedJoin(visits[v].outs[1].chunks)

(* ------------------------------ C33 ------------------------------------- *)

\* the calls of split_mp3_by_size that reached the segmenter with a bitrate
\* the code accepted (an integer above zero)
SegmentedByBitrate ==
    /\ size_split.pc \in {"segmented", "failed"}
    /\ size_split.bitrate_bits.known
    /\ size_split.bitrate_bits.bits > 0

\* floor(0.9 * max_segment_size / (bitrate_bits / 8)): the one integer q with
\* q <= 72 * max_segment_size / (10 * bitrate_bits) < q + 1
FloorSafeSeconds(max_segment_size, bits) ==
    CHOOSE q \in 0..(8 * max_segment_size) :
        /\ 10 * bits * q <= 72 * max_segment_size
        /\ 72 * max_segment_size < 10 * bits * (q + 1)

\* the floor raised to 30 and then lowered to the fallback
ClampedSafeSeconds ==
    Min2(size_split.fallback_seg_seconds,
         Max2(MinSegmentSeconds,
              FloorSafeSeconds(size_split.max_segment_size,
                               size_split.bitrate_bits.bits)))

\* C33 as stated: for a file above max_segment_size with a known positive
\* bitrate the duration passed to the segmenter is the clamped
\* floor(0.9 * max_segment_size / (bitrate / 8)), and it is at least 30 and at
\* most fallback_seg_seconds, whatever the three arguments are
C33_DurationWithinBothBounds ==
    SegmentedByBitrate =>
        /\ size_split.raw_size > size_split.max_segment_size
        /\ size_split.segment_time = ClampedSafeSeconds
        /\ size_split.segment_time >= MinSegmentSeconds
        /\ size_split.segment_time <= size_split.fallback_seg_seconds

\* C33: for a file above max_segment_size with a known positive bitrate the
\* duration passed to the segmenter is floor(0.9 * max_segment_size /
\* (bitrate / 8)) raised to 30 and then lowered to fallback_seg_seconds; it is
\* at most fallback_seg_seconds, and at least 30 when fallback_seg_seconds is
\* at least 30
C33_DurationClamped ==
    SegmentedByBitrate =>
        /\ size_split.raw_size > size_split.max_segment_size
        /\ size_split.segment_time = ClampedSafeSeconds
        /\ size_split.segment_time <= size_split.fallback_seg_seconds
        /\ size_split.fallback_seg_seconds >= MinSegmentSeconds
              => size_split.segment_time >= MinSegmentSeconds

\* a call whose computed duration lies strictly between the two clamps
C33_Witness ==
    /\ SegmentedByBitrate
    /\ size_split.segment_time > MinSegmentSeconds
    /\ size_split.segment_time < size_split.fallback_seg_seconds
    /\ size_split.segment_time
         = FloorSafeSeconds(size_split.max_segment_size,
                            size_split.bitrate_bits.bits)

(* ------------------------------ C34 ------------------------------------- *)

\* the splitter has taken a step: a call of it was made
SplitterStarted == visits # <<>>

\* the splitter calls with an encoder call or a remote call behind them
SplitterWorked ==
    {v \in 1..Len(visits) : visits[v].encs # <<>> \/ visits[v].calls > 0}

\* calls are made in the order of the top-level segments, and a tree is
\* finished before the tree of a later segment is started
TreesInSegmentOrder ==
    \A v, w \in 1..Len(visits) :
        v < w =>
            /\ visits[v].root <= visits[w].root
            /\ visits[v].root < visits[w].root => visits[v].returned

\* the call on a right half is made after the call on the left half and
\* everything below it has returned
LeftFullyBeforeRight ==
    \A w \in 1..Len(visits) :
        \A v \in Caller(w) :
            visits[w].path = PartR(visits[v].path) =>
                \E l \in ChildOn(v, PartL(visits[v].path)) :
                    \A u \in Subtree(l) : u < w /\ visits[u].returned

\* C34: no splitter step starts before every top-level task has returned;
\* split trees are processed one after another in segment order, the left
\* half fully before the right half; at most one remote call of the
\* splitter is in flight, whatever max_concurrency is
C34_SplittingSerialized ==
    /\ SplitterStarted => \A j \in Tasks : tpc[j] = "done"
    /\ SplitterWorked # {} => InFlightTasks = {}
    /\ TreesInSegmentOrder
    /\ LeftFullyBeforeRight
    /\ Cardinality(InFlightSplits) <= 1
    /\ Len(stack) >= 1 =>
          \A i \in 1..(Len(stack) - 1) : stack[i].pc \in {"awaitL", "awaitR"}

\* C34 witness: with max_concurrency = 2 two segments needed a split; the
\* tree of the first is finished, and in the tree of the second the call on
\* a right half has its remote call in flight after the left half returned
C34_Witness ==
    /\ max_concurrency = 2
    /\ InFlightSplits # {}
    /\ \E v, w \in 1..Len(visits) :
          /\ visits[v].root < visits[w].root
          /\ visits[v].encs # <<>>
    /\ \E w \in 1..Len(visits) :
          /\ ~visits[w].returned
          /\ visits[w].calls > 0
          /\ \E v \in Caller(w) : visits[w].path = PartR(visits[v].path)

(* ------------------------------ C35 ------------------------------------- *)

\* the tasks in asyncio.sleep between two attempts
Sleepers == {j \in Tasks : tpc[j] = "sleeping"}

\* the tasks whose remote call is pending
Callers == {j \in Tasks : tpc[j] = "calling"}

\* C35: a task keeps its permit from the acquire to the return of its
\* result, backoff sleeps included: while the gather runs the permits taken
\* are those of the calling tasks plus those of the sleeping tasks, and when
\* max_concurrency = N >= 1 tasks are asleep no waiting task can start
\* although no remote call is in flight
C35_SlotHeldWhileAsleep ==
    pc = "gather" =>
        /\ sem = max_concurrency - Cardinality(Callers) - Cardinality(Sleepers)
        /\ \A j \in Sleepers : log[j].calls >= 1 /\ base_results[j] = NoResult
        /\ (max_concurrency >= 1 /\ Cardinality(Sleepers) = max_concurrency) =>
              /\ Callers = {}
              /\ \A j \in Tasks : ~ENABLED TaskStart(j)

\* C35 witness: every permit is with a sleeping task, no remote call is in
\* flight, and a task is waiting at the gate
C35_Witness ==
    /\ pc = "gather"
    /\ max_concurrency >= 1
    /\ Cardinality(Sleepers) = max_concurrency
    /\ Callers = {}
    /\ \E j \in Tasks : tpc[j] = "waiting"

(* ------------------------------ C36 ------------------------------------- *)

\* the answers the service gave task j, one per attempt: what kind of
\* answer it was, its error text and the chunks it streamed
Answers(j) == log[j].outs

\* the attempts task j may make
Allowed == max_segment_retries + 1

\* the attempts of task j whose answer ends the retry loop at once: a text,
\* or a payload-size error
Deciding(j) ==
    {k \in 1..Len(Answers(j)) :
        k <= Allowed /\ Answers(j)[k].class \in {"text", "payload"}}

\* the attempt after which task j returns when it runs on its own against
\* these answers: the first deciding one, else the last one allowed
LastAttemptAlone(j) ==
    IF Deciding(j) # {}
    THEN CHOOSE k \in Deciding(j) : \A i \in Deciding(j) : k <= i
    ELSE Allowed

\* the reason a failure leaves behind: the error text, "unknown" for an
\* empty one, or that the transcription was empty
ReasonLeft(answer) ==
    IF answer.class = "empty" THEN <<"empty transcription">>
    ELSE IF answer.msg = <<>> THEN <<"unknown">>
    ELSE answer.msg

\* the text of the placeholder for the range [s, e) with a reason
FailureText(s, e, reason) ==
    PlaceholderPrefix(s, e) \o reason \o <<"]">>

\* what task j returns when it runs on its own against these answers: the
\* text of the first attempt that gave one, a split signal for the first
\* payload-size error, or the placeholder for the failure of the last attempt
ResultAlone(j) ==
    LET answer == Answers(j)[LastAttemptAlone(j)]
    IN  IF answer.class = "text"
        THEN [index |-> (j - 1) * TicksPerSec,
              text |-> Strip(CleanedJoin(answer.chunks)),
              start_s |-> starts[j], end_s |-> ends[j]]
        ELSE IF answer.class = "payload"
        THEN [index |-> (j - 1) * TicksPerSec, split_required |-> TRUE,
              segment_path |-> segments[j],
              start_s |-> starts[j], end_s |-> ends[j]]
        ELSE [index |-> (j - 1) * TicksPerSec,
              text |-> FailureText(starts[j], ends[j], ReasonLeft(answer)),
              start_s |-> starts[j], end_s |-> ends[j]]

\* what the environment answered for the file path below segment j: the
\* size on disk, the probed duration and the answer of the service
AnswersFor(j, path) ==
    visits[CHOOSE v \in Tree(j) : visits[v].path = path]

RECURSIVE LeavesAlone(_, _, _, _, _)
\* the leaves of the file path, range [s, e), at depth d below segment j, as
\* a function of these answers: a file above the cap is halved at the
\* middle of its duration while the depth allows and is reported too large
\* when it does not; a file within the cap gets one remote call
LeavesAlone(j, path, s, e, d) ==
    LET env == AnswersFor(j, path)
    IN  IF env.raw_size > PayloadSizeCap /\ d < max_split_depth
        THEN LET dur == IF env.probe # 0 THEN env.probe
                        ELSE IF e # s THEN e - s
                        ELSE TicksPerSec
                 mid == s + (dur \div 2)
             IN  LeavesAlone(j, PartL(path), s, mid, d + 1)
                   \o LeavesAlone(j, PartR(path), mid, e, d + 1)
        ELSE IF env.raw_size > PayloadSizeCap
        THEN <<[index |-> s, start_s |-> s, end_s |-> e,
                text |-> FailureText(s, e, <<"payload-too-large-after-splits">>)]>>
        ELSE LET answer == env.outs[1]
             IN  IF answer.class = "text"
                 THEN <<[index |-> IntOf(s), start_s |-> s, end_s |-> e,
                         text |-> Strip(CleanedJoin(answer.chunks))]>>
                 ELSE IF answer.class = "payload"
                 THEN <<[index |-> s, start_s |-> s, end_s |-> e,
                         text |-> FailureText(s, e, <<"payload-error-persistent">>)]>>
                 ELSE <<[index |-> IntOf(s), start_s |-> s, end_s |-> e,
                         text |-> FailureText(s, e, ReasonLeft(answer))]>>

RECURSIVE EmittedAlone(_)
\* the leaves of the first k segments taken one by one in segment order
EmittedAlone(k) ==
    IF k = 0 THEN <<>>
    ELSE EmittedAlone(k - 1)
           \o (IF "split_required" \in DOMAIN ResultAlone(k)
               THEN LeavesAlone(k, segments[k], starts[k], ends[k], 0)
               ELSE <<ResultAlone(k)>>)

\* rs without its i-th element
Without(rs, i) == SubSeq(rs, 1, i - 1) \o SubSeq(rs, i + 1, Len(rs))

RECURSIVE ByStartStable(_)
\* rs in ascending start_s order, leaves of equal start_s in the order they
\* have in rs: the earliest leaf of the least start_s comes first
ByStartStable(rs) ==
    IF rs = <<>> THEN <<>>
    ELSE LET first == CHOOSE i \in 1..Len(rs) :
                         /\ \A k \in 1..Len(rs) : rs[i].start_s <= rs[k].start_s
                         /\ \A k \in 1..(i - 1) : rs[k].start_s # rs[i].start_s
         IN  <<rs[first]>> \o ByStartStable(Without(rs, first))

RECURSIVE TranscriptOf(_)
\* the texts of rs, a blank line between two of them
TranscriptOf(rs) ==
    IF rs = <<>> THEN <<>>
    ELSE IF Len(rs) = 1 THEN rs[1].text
    ELSE TranscriptOf(SubSeq(rs, 1, Len(rs) - 1)) \o <<"\n\n">> \o rs[Len(rs)].text

\* names is the list of the segment files of dir in ascending name order
IsSortedListing(names, dir) ==
    /\ Range(names) = {f \in dir : SegNameMatch(f)}
    /\ \A i \in 1..Len(names), k \in 1..Len(names) :
          i < k => NameLess(names[i], names[k])

\* C36: the result is a function of the inputs and of what the environment
\* answers per file and attempt, not of the interleaving: each task makes
\* the calls and returns the result it makes and returns when it runs on its
\* own against the same answers, and the returned transcript and segment
\* list are those computed from the segments taken one by one in segment
\* order: the transcript from their leaves put in start order, the segment
\* list from the directory as it was listed
C36_InterleavingIndependent ==
    /\ \A j \in Tasks :
          tpc[j] = "done" =>
              /\ Len(Answers(j)) = LastAttemptAlone(j)
              /\ log[j].calls = LastAttemptAlone(j)
              /\ base_results[j] = ResultAlone(j)
    /\ (pc = "done" /\ segments # <<>>) =>
          /\ expanded = ByStartStable(EmittedAlone(Len(segments)))
          /\ full_text = TranscriptOf(ByStartStable(EmittedAlone(Len(segments))))
          /\ IsSortedListing(out_segments, listed)

\* C36 witness: a run over two segments or more with a gate of two permits,
\* so that the tasks interleave, returned a transcript after one task made a
\* second call and the result of one task went to the splitter
C36_Witness ==
    /\ pc = "done"
    /\ Len(segments) >= 2
    /\ max_concurrency >= 2
    /\ \E j \in Tasks : log[j].calls >= 2
    /\ \E j \in Tasks : GetSplitRequired(base_results[j])
    /\ full_text # <<>>

(* ------------------------------ C37 ------------------------------------- *)

\* the calls below task j that ended the recursion: they returned, or have
\* their remote call in flight, without an encoder call
LeafCalls(j) ==
    {v \in Tree(j) :
        visits[v].encs = <<>> /\ (visits[v].returned \/ visits[v].calls > 0)}

\* the remote calls made below task j (no call makes more than one)
TreeRemoteCalls(j) == Cardinality({v \in Tree(j) : visits[v].calls >= 1})

\* the encoder calls made below task j (no call makes more than two)
TreeEncoderCalls(j) ==
    Cardinality({v \in Tree(j) : Len(visits[v].encs) >= 1})
      + Cardinality({v \in Tree(j) : Len(visits[v].encs) >= 2})

\* 2^max_depth
MaxLeaves == 2 ^ max_split_depth

\* C37: below one routed segment every splitter call makes at most one
\* remote call, and none when it bisects; the tree has at most 2^max_depth
\* leaves, makes at most 2^max_depth remote calls and at most
\* 2 * (2^max_depth - 1) encoder calls, whatever max_segment_retries is
C37_SplitBudget ==
    \A j \in routed :
        /\ \A v \in Tree(j) :
              /\ visits[v].calls <= 1
              /\ Len(visits[v].outs) <= visits[v].calls
              /\ Len(visits[v].encs) <= 2
              /\ visits[v].encs # <<>> => visits[v].calls = 0
        /\ Cardinality(LeafCalls(j)) <= MaxLeaves
        /\ TreeRemoteCalls(j) <= MaxLeaves
        /\ TreeEncoderCalls(j) <= 2 * (MaxLeaves - 1)
        /\ \A v \in Tree(j) :
              (visits[v].depth = 0 /\ visits[v].returned) =>
                  Len(visits[v].leaves) <= MaxLeaves

\* C37 witness: with retries allowed, the tree of a segment has returned
\* after the largest number of remote calls and encoder calls the bound
\* admits for a depth limit of one or more
C37_Witness ==
    /\ max_segment_retries >= 1
    /\ max_split_depth >= 1
    /\ \E j \in routed :
          /\ TreeRemoteCalls(j) = MaxLeaves
          /\ TreeEncoderCalls(j) = 2 * (MaxLeaves - 1)
          /\ \E v \in Tree(j) : visits[v].depth = 0 /\ visits[v].returned

(* ------------------------------ C38 ------------------------------------- *)

\* no task waits at the gate while a task created after it has been admitted
AdmittedInOrder ==
    \A i, j \in Tasks : (i < j /\ tpc[j] # "waiting") => tpc[i] # "waiting"

\* task j has been dispatched and has not been admitted
Dispatched(j) == pc = "gather" /\ j \in Tasks /\ tpc[j] = "waiting"

\* task j has made its first remote call
FirstCallMade(j) == j \in Tasks /\ log[j].calls >= 1

\* C38: with max_concurrency >= 1, when every remote call and every sleep of
\* an admitted task ends, every dispatched task is admitted and makes its
\* first remote call, and the tasks are admitted in segment order
C38_NoStarvation ==
    /\ [](pc = "gather" => AdmittedInOrder)
    /\ \A j \in 1..MaxSeg :
          (max_concurrency >= 1 /\ Dispatched(j)) ~> FirstCallMade(j)

\* C38 witness: the gate is full and two tasks wait behind it; the earlier
\* ones were admitted first
C38_Witness ==
    /\ pc = "gather"
    /\ max_concurrency >= 1
    /\ sem = 0
    /\ \E j \in Tasks : tpc[j] = "done"
    /\ \E j \in Tasks : tpc[j] = "calling" /\ j >= 2
    /\ \E j \in Tasks : tpc[j] = "waiting" /\ j >= 3

(* ------------------------------ C39 ------------------------------------- *)

\* the run was given max_concurrency = 0 and found segments
ClosedGate == max_concurrency = 0 /\ segments # <<>>

\* C39: with max_concurrency = 0 and at least one segment the gate admits no
\* task: no remote call is made, no task returns, the gather does not
\* return and neither does transcribe_file
C39_ZeroGateHangs ==
    ClosedGate =>
        /\ pc = "gather"
        /\ sem = 0
        /\ \A j \in Tasks :
              /\ tpc[j] = "waiting"
              /\ log[j].calls = 0
              /\ base_results[j] = NoResult
              /\ ~ENABLED TaskStart(j)
        /\ visits = <<>>
        /\ ~ENABLED GatherReturns
        /\ full_text = <<>> /\ out_segments = <<>>

\* C39 witness: the tasks of two segments or more wait at a gate of zero
\* permits
C39_Witness ==
    /\ ClosedGate
    /\ pc = "gather"
    /\ Len(segments) >= 2
    /\ \A j \in Tasks : tpc[j] = "waiting"

(* ------------------------------ C40 ------------------------------------- *)

\* the tasks that returned after their last allowed attempt failed
ExhaustedTasks ==
    {j \in Tasks :
        /\ tpc[j] = "done"
        /\ Outs(j) # <<>>
        /\ LastOut(j).class \in {"error", "empty"}}

\* what an attempt that failed leaves in last_error: the text of the
\* exception, or 'empty transcription'
ReasonOfAttempt(o) == IF o.class = "empty" THEN ReasonEmpty ELSE o.msg

\* a result is produced only after a remote call
CallBeforeResult ==
    \A j \in Tasks :
        /\ base_results[j] # NoResult => tpc[j] = "done"
        /\ tpc[j] = "done" =>
              /\ log[j].calls >= 1
              /\ Len(Outs(j)) = log[j].calls

\* C40 as claimed: with max_segment_retries >= 0 a task makes a remote call
\* before it produces a result, the reason of an exhaustion placeholder is
\* the last attempt's error text or 'empty transcription', and it is never
\* 'unknown'
C40_UnknownNeverWithAttempts ==
    max_segment_retries >= 0 =>
        /\ CallBeforeResult
        /\ \A j \in ExhaustedTasks :
              /\ base_results[j] = FailedWith(j, ReasonOfAttempt(LastOut(j)))
              /\ base_results[j] # FailedWith(j, ReasonUnknown)

\* C40: with max_segment_retries >= 0 a task makes a remote call before it
\* produces a result, and the reason of an exhaustion placeholder is the last
\* attempt's error text or 'empty transcription', except that it is
\* 'unknown' when, and only when, the last attempt raised an error whose
\* text is empty
C40_UnknownOnlyForEmptyText ==
    max_segment_retries >= 0 =>
        /\ CallBeforeResult
        /\ \A j \in ExhaustedTasks :
              /\ ReasonOfAttempt(LastOut(j)) # <<>> =>
                    /\ base_results[j]
                         = FailedWith(j, ReasonOfAttempt(LastOut(j)))
                    /\ base_results[j] # FailedWith(j, ReasonUnknown)
              /\ ReasonOfAttempt(LastOut(j)) = <<>> =>
                    /\ LastOut(j).class = "error"
                    /\ base_results[j] = FailedWith(j, ReasonUnknown)

\* C40 witness: a task made two calls; the first raised an error with a
\* text, the last one an error with an empty text, and the placeholder gives
\* 'unknown' as the reason
C40_Witness ==
    \E j \in ExhaustedTasks :
        /\ max_segment_retries >= 1
        /\ log[j].calls = 2
        /\ Outs(j)[1].msg = MsgBoom
        /\ Outs(j)[2].class = "error" /\ Outs(j)[2].msg = MsgBlank
        /\ base_results[j] = FailedWith(j, ReasonUnknown)

====
